---- MODULE Spec2Model ----
(***************************************************************************)
(* Model of the cycle-safe reference handling, the serializer context      *)
(* derivation and the Set serializer of EntityBuilder.TS.                  *)
(*                                                                         *)
(*   Spec         one top-level serialize / deserialize over an object     *)
(*                graph of collections (DirectReferenceHandler,            *)
(*                SerializerContext, SetSerializer)                        *)
(*   FairSpec     Spec with weak fairness of the traversal steps           *)
(*   SpecPoly     SerializerContext.definePolymorphicSerializerContext     *)
(*   SpecGeneric  SerializerContext.defineGenericSerializerContext and the *)
(*                element contexts the Set serializer derives from it      *)
(***************************************************************************)
EXTENDS Integers, Sequences, FiniteSets, TLC

\* ------------------------------------------------------------------ bounds
MaxNodes == 2
MaxElems == 2

Nodes == 1..MaxNodes
\* The recursion is cut two levels above the depth the graph allows.
MaxDepth == MaxNodes + 2

\* ------------------------------------------------------------------ values
\* An optional (T | undefined) is <<>> or <<x>>.
None == <<>>
Some(x) == <<x>>
\* a ?? b
Coalesce(a, b) == IF a # None THEN a ELSE b

\* Runtime values.  t: undefined | null | in (an input instance, which is
\* also its own reference key) | out (an array or Set the operation built)
\* | resolver (the closure () => referenceMap.get(key), n its identity).
Undefined == [t |-> "undefined", id |-> 0, n |-> 0]
Null == [t |-> "null", id |-> 0, n |-> 0]
In(k) == [t |-> "in", id |-> k, n |-> 0]
Out(o) == [t |-> "out", id |-> o, n |-> 0]
Resolver(k, n) == [t |-> "resolver", id |-> k, n |-> n]

isNil(v) == v.t \in {"undefined", "null"}
isFunction(v) == v.t = "resolver"

\* ------------------------------------------------------------------ types
Types == {"Set", "Array"}

\* GenericArgument<T> = TypeFn<T> | [TypeFn<T>, Array<GenericArgument<any>>]
Bare(type) == [type |-> type, isArray |-> FALSE, args |-> <<>>]
Pair(type, args) == [type |-> type, isArray |-> TRUE, args |-> args]

\* Json path keys: a number (an index) or a string (a field name, by table).
NumKey(i) == [isNumber |-> TRUE, k |-> i]
StrKey(i) == [isNumber |-> FALSE, k |-> i]
RootKey == StrKey(0)

VARIABLES
    op,                    \* "serialize" | "deserialize"
    graph,                 \* the input instances: node -> [kind, elems]
    rootValue,             \* the value handed to the top-level call
    typeGen,               \* TypeMetadata.genericArguments of each type
    policy,                \* the configuration each type's Type Metadata holds
    discriminantMap,       \* TypeMetadata.discriminantMap, in map order
    discriminator,         \* TypeMetadata.discriminator of each member type
    typePreserve,          \* TypeMetadata.preserveDiscriminator of each member type
    typeCtors,             \* the constructor function of each member type
    rootCtx,               \* the root serializer context of the operation
    referenceMap,          \* node -> value, Undefined when absent
    referenceCallbackMap,  \* node -> sequence of callbacks
    stack,                 \* the running value initializers, innermost last
    heap,                  \* the arrays and Sets built so far
    status,                \* idle | running | done | error
    result,                \* what the top-level call returned
    resolverCount,         \* resolvers created so far
    initCount,             \* node -> number of initializer invocations
    trace,                 \* per node, the steps of its fresh visit so far
    replayed,              \* callbacks replayed: [key, read, entry]
    returned,              \* what each visit returned: [key, branch, value]
    resolverReads,         \* resolver invocations: [key, finished, read]
    logged,                \* the errors written to the log, in order
    fnIn,                  \* SpecPoly / SpecGeneric: the call's arguments
    fnOut,                 \* SpecPoly / SpecGeneric: the call's outcome
    registry,              \* TypeArtisan: options map, alias map, the prototypes
    cur,                   \* the operation whose state the variables above hold
    others                 \* SpecTwo: operation -> its state while it is not running

\* What an operation is given: fixed once it has started.
config == <<op, graph, rootValue, typeGen, policy, discriminantMap, discriminator,
            typePreserve, typeCtors, rootCtx>>
\* What the bookkeeping of the traversal records.
history == <<initCount, trace, replayed, returned, resolverReads, logged>>
\* The arguments and the outcome of a context-derivation call.
call == <<fnIn, fnOut>>

\* Which operation runs, and the ones that wait.
schedule == <<cur, others>>

vars == <<config, referenceMap, referenceCallbackMap, stack, heap, status, result,
          resolverCount, history, call, schedule, registry>>

\* ---------------------------------------------------------------- registry
\* The types the registry is examined on: Sub extends Base, Number is one of
\* the types the options map is created with.
RegTypes == {"Base", "Sub", "Number"}
Parent(typeCtor) == IF typeCtor = "Sub" THEN Some("Base") ELSE None
Aliases == {"a", "b"}
PropertyNames == {"p", "q"}

\* TypeOptions: every entry optional.  propertyOptionsMap holds the names of
\* the properties the options declare.
TypeOptions(alias, useDefaultValue, defaultValue, propertyOptionsMap) ==
    [alias |-> alias, useDefaultValue |-> useDefaultValue,
     defaultValue |-> defaultValue, propertyOptionsMap |-> propertyOptionsMap]
NoOptions == TypeOptions(None, None, None, None)

\* Fn.assign(target, source): the entries source has replace those of target.
assign(target, source) ==
    [name \in DOMAIN target |-> IF source[name] # None THEN source[name] ELSE target[name]]

\* typeMetadata.configure(typeOptions): the options are merged into the
\* metadata's own, and each property they declare is declared on the type.
configure(typeMetadata, typeOptions) ==
    [typeMetadata EXCEPT
        !.typeOptions = assign(@, typeOptions),
        !.propertyMetadataMap =
            [name \in PropertyNames |->
                IF typeOptions.propertyOptionsMap # None
                   /\ name \in typeOptions.propertyOptionsMap[1]
                THEN Some([name |-> name, declaringType |-> typeMetadata.typeCtor])
                ELSE @[name]]]

\* new TypeMetadata(typeMetadataResolver, typeCtor, typeOptionsBase, typeOptions)
NewTypeMetadata(id, typeCtor, typeOptions) ==
    configure([id |-> id, typeCtor |-> typeCtor, typeOptions |-> NoOptions,
               propertyMetadataMap |-> [name \in PropertyNames |-> None]],
              typeOptions)

\* The static state of TypeArtisan and the metadata the prototypes hold;
\* created counts the Type Metadata instances made so far.
InitialRegistry ==
    [typeOptionsMap |->
        [t \in RegTypes |-> IF t = "Number"
                            THEN Some(TypeOptions(None, None, Some("0"), None))
                            ELSE None],
     typeCtorMap |-> [a \in Aliases |-> None],
     prototype |-> [t \in RegTypes |-> None],
     created |-> 0]

\* prototype[metadataKey]: the own property, else the one of the nearest
\* supertype that has it.
RECURSIVE PrototypeLookup(_, _)
PrototypeLookup(r, typeCtor) ==
    IF r.prototype[typeCtor] # None THEN r.prototype[typeCtor]
    ELSE IF Parent(typeCtor) = None THEN None
    ELSE PrototypeLookup(r, Parent(typeCtor)[1])

\* (variant: an alias that has an entry keeps it)
SetAlias_KeepsFirst(r, alias, typeCtor) ==
    IF alias = None \/ r.typeCtorMap[alias[1]] # None THEN r
    ELSE [r EXCEPT !.typeCtorMap[alias[1]] = Some(typeCtor)]

\* this.typeCtorMap.set(alias, typeCtor) unless the alias is nil.
SetAlias(r, alias, typeCtor) ==
    IF alias = None THEN r ELSE [r EXCEPT !.typeCtorMap[alias[1]] = Some(typeCtor)]

declareTypeMetadata(r, typeCtor) ==
    LET typeOptions == r.typeOptionsMap[typeCtor]
        typeMetadata == NewTypeMetadata(r.created + 1, typeCtor,
                                        IF typeOptions = None THEN NoOptions
                                        ELSE typeOptions[1])
    IN  [registry |-> SetAlias([r EXCEPT !.created = @ + 1],
                               typeMetadata.typeOptions.alias, typeCtor),
         typeMetadata |-> typeMetadata]

\* The property metadata of the supertype, set on the new metadata by name.
WithParentProperties(typeMetadata, typeMetadataParent) ==
    IF typeMetadataParent = None THEN typeMetadata
    ELSE [typeMetadata EXCEPT !.propertyMetadataMap =
            [name \in PropertyNames |->
                IF typeMetadataParent[1].propertyMetadataMap[name] # None
                THEN typeMetadataParent[1].propertyMetadataMap[name]
                ELSE @[name]]]

\* (variant: the properties of the supertype are set after the options given
\* are configured)
TypeArtisan_defineTypeMetadata_ParentLast(r, typeCtor, typeOptions) ==
    LET metadataDefined == r.prototype[typeCtor] # None
        d == IF metadataDefined
             THEN [registry |-> r, typeMetadata |-> r.prototype[typeCtor][1]]
             ELSE declareTypeMetadata(r, typeCtor)
        configured == configure(d.typeMetadata, typeOptions)
        typeMetadata ==
             IF metadataDefined THEN configured
             ELSE WithParentProperties(configured, PrototypeLookup(d.registry, typeCtor))
    IN  [registry |-> [SetAlias(d.registry, typeOptions.alias, typeCtor)
                          EXCEPT !.prototype[typeCtor] = Some(typeMetadata)],
         typeMetadata |-> typeMetadata]

TypeArtisan_defineTypeMetadata(r, typeCtor, typeOptions) ==
    LET metadataDefined == r.prototype[typeCtor] # None
        d == IF metadataDefined
             THEN [registry |-> r, typeMetadata |-> r.prototype[typeCtor][1]]
             ELSE declareTypeMetadata(r, typeCtor)
        typeMetadata ==
             IF metadataDefined THEN d.typeMetadata
             ELSE WithParentProperties(d.typeMetadata, PrototypeLookup(d.registry, typeCtor))
        configured == configure(typeMetadata, typeOptions)
    IN  [registry |-> [SetAlias(d.registry, typeOptions.alias, typeCtor)
                          EXCEPT !.prototype[typeCtor] = Some(configured)],
         typeMetadata |-> configured]

\* (variant: the options given replace the ones recorded for the type)
configureTypeOptions_Replaces(r, typeCtor, typeOptions) ==
    TypeArtisan_defineTypeMetadata([r EXCEPT !.typeOptionsMap[typeCtor] = Some(typeOptions)],
                       typeCtor, typeOptions).registry

configureTypeOptions(r, typeCtor, typeOptions) ==
    LET definedTypeOptions == IF r.typeOptionsMap[typeCtor] = None THEN NoOptions
                              ELSE r.typeOptionsMap[typeCtor][1]
    IN  TypeArtisan_defineTypeMetadata(
            [r EXCEPT !.typeOptionsMap[typeCtor] =
                          Some(assign(definedTypeOptions, typeOptions))],
            typeCtor, typeOptions).registry

\* (variant: the metadata is declared anew on every access)
extractTypeMetadata_Redeclares(r, typeCtor) ==
    LET d == declareTypeMetadata(r, typeCtor)
    IN  [registry |-> [d.registry EXCEPT !.prototype[typeCtor] = Some(d.typeMetadata)],
         typeMetadata |-> d.typeMetadata]

\* (variant: the metadata visible through the prototype chain is taken)
extractTypeMetadata_Inherited(r, typeCtor) ==
    IF PrototypeLookup(r, typeCtor) # None
    THEN [registry |-> r, typeMetadata |-> PrototypeLookup(r, typeCtor)[1]]
    ELSE TypeArtisan_defineTypeMetadata(r, typeCtor, NoOptions)

extractTypeMetadata(r, typeCtor) ==
    IF r.prototype[typeCtor] # None
    THEN [registry |-> r, typeMetadata |-> r.prototype[typeCtor][1]]
    ELSE TypeArtisan_defineTypeMetadata(r, typeCtor, NoOptions)

\* A type argument: an alias, a constructor, or a lazy resolver with what it
\* yields.
AliasArgument(alias) == [kind |-> "alias", alias |-> alias, yields |-> None]
CtorArgument(typeCtor) == [kind |-> "ctor", alias |-> "", yields |-> Some(typeCtor)]
LazyArgument(yields) == [kind |-> "lazy", alias |-> "", yields |-> yields]

Resolved(threw, r, typeMetadata) ==
    [threw |-> threw, registry |-> r, typeMetadata |-> typeMetadata]

\* (variant: the resolved constructor is not checked)
resolveTypeMetadata_Unchecked(r, typeArgument) ==
    LET typeCtor == IF typeArgument.kind = "alias" THEN r.typeCtorMap[typeArgument.alias]
                    ELSE typeArgument.yields
    IN  IF typeCtor = None THEN Resolved(FALSE, r, None)
        ELSE LET e == extractTypeMetadata(r, typeCtor[1])
             IN  Resolved(FALSE, e.registry, Some(e.typeMetadata))

resolveTypeMetadata(r, typeArgument) ==
    LET typeCtor == IF typeArgument.kind = "alias" THEN r.typeCtorMap[typeArgument.alias]
                    ELSE typeArgument.yields
    IN  IF typeCtor = None THEN Resolved(TRUE, r, None)
        ELSE LET e == extractTypeMetadata(r, typeCtor[1])
             IN  Resolved(FALSE, e.registry, Some(e.typeMetadata))

\* ---------------------------------------------------------------- contexts
\* SerializerContextOptions: jsonPathKey, typeMetadata, propertyMetadata?,
\* genericArguments?, referenceValueSetter?.
Options(key, type, prop, gen, setter) ==
    [jsonPathKey |-> key, typeMetadata |-> type, propertyMetadata |-> prop,
     genericArguments |-> gen, referenceValueSetter |-> setter]

\* new SerializerContext($, referenceMap, referenceCallbackMap, options, parent).
\* root is the field $; the two maps are held by reference, so a context
\* holds the identity of each map, not its content.
SerializerContext(root, map, callbackMap, options, parent) ==
    [root |-> root, referenceMap |-> map, referenceCallbackMap |-> callbackMap,
     serializerContextOptions |-> options, parentSerializerContext |-> parent]

\* get genericArguments(): options ?? propertyMetadata?. ?? typeMetadata.
genericArguments(ctx) ==
    LET o == ctx.serializerContextOptions
        p == IF o.propertyMetadata = None THEN None
             ELSE o.propertyMetadata[1].genericArguments
    IN  Coalesce(o.genericArguments, Coalesce(p, typeGen[o.typeMetadata]))

\* this.defineTypeMetadata(typeFn): the Type Metadata of a type is named by it.
defineTypeMetadata(typeFn) == typeFn

Threw(message, ctx) == [threw |-> TRUE, message |-> message, ctx |-> ctx]
Gave(ctx) == [threw |-> FALSE, message |-> "", ctx |-> ctx]

\* (variant: the child is given maps of its own)
defineChildSerializerContext_OwnMaps(ctx, options) ==
    SerializerContext(ctx.root, 0, 0, options, Some(ctx))

defineChildSerializerContext(ctx, options) ==
    SerializerContext(ctx.root, ctx.referenceMap, ctx.referenceCallbackMap, options, Some(ctx))

\* genericArguments[genericIndex] of a JavaScript array: undefined out of range.
ArrayAt(array, index) ==
    IF index >= 0 /\ index < Len(array) THEN Some(array[index + 1]) ELSE None

\* (variant: the nested generic arguments are not made the override)
defineGenericSerializerContext_KeepsArguments(ctx, genericIndex) ==
    LET args == genericArguments(ctx) IN
    IF args = None
    THEN Threw("cannot define generic arguments", ctx)
    ELSE LET genericArgument == ArrayAt(args[1], genericIndex) IN
         IF genericArgument = None
         THEN Threw("cannot define generic argument for index", ctx)
         ELSE LET o == ctx.serializerContextOptions
              IN  Gave(SerializerContext(ctx.root, ctx.referenceMap, ctx.referenceCallbackMap,
                      [o EXCEPT !.typeMetadata = defineTypeMetadata(genericArgument[1].type),
                                !.propertyMetadata = None],
                      ctx.parentSerializerContext))

\* (variant: the Property Metadata of the field stays on the generic context)
defineGenericSerializerContext_KeepsProperty(ctx, genericIndex) ==
    LET args == genericArguments(ctx) IN
    IF args = None
    THEN Threw("cannot define generic arguments", ctx)
    ELSE LET genericArgument == ArrayAt(args[1], genericIndex) IN
         IF genericArgument = None
         THEN Threw("cannot define generic argument for index", ctx)
         ELSE LET g == genericArgument[1]
                  o == ctx.serializerContextOptions
              IN  Gave(SerializerContext(ctx.root, ctx.referenceMap, ctx.referenceCallbackMap,
                      [o EXCEPT !.typeMetadata = defineTypeMetadata(g.type),
                                !.genericArguments = IF g.isArray THEN Some(g.args) ELSE None],
                      ctx.parentSerializerContext))

\* (variant: the generic context is made a child of the context)
defineGenericSerializerContext_AsChild(ctx, genericIndex) ==
    LET args == genericArguments(ctx) IN
    IF args = None
    THEN Threw("cannot define generic arguments", ctx)
    ELSE LET genericArgument == ArrayAt(args[1], genericIndex) IN
         IF genericArgument = None
         THEN Threw("cannot define generic argument for index", ctx)
         ELSE LET g == genericArgument[1]
                  o == ctx.serializerContextOptions
              IN  Gave(SerializerContext(ctx.root, ctx.referenceMap, ctx.referenceCallbackMap,
                      [o EXCEPT !.typeMetadata = defineTypeMetadata(g.type),
                                !.genericArguments = IF g.isArray THEN Some(g.args) ELSE None,
                                !.propertyMetadata = None],
                      Some(ctx)))

defineGenericSerializerContext(ctx, genericIndex) ==
    LET args == genericArguments(ctx) IN
    IF args = None
    THEN Threw("cannot define generic arguments", ctx)
    ELSE LET genericArgument == ArrayAt(args[1], genericIndex) IN
         IF genericArgument = None
         THEN Threw("cannot define generic argument for index", ctx)
         ELSE LET g == genericArgument[1]
                  genericTypeArgument == g.type
                  genericGenericArguments == IF g.isArray THEN Some(g.args) ELSE None
                  o == ctx.serializerContextOptions
              IN  Gave(SerializerContext(ctx.root, ctx.referenceMap, ctx.referenceCallbackMap,
                      [o EXCEPT !.typeMetadata = defineTypeMetadata(genericTypeArgument),
                                !.genericArguments = genericGenericArguments,
                                !.propertyMetadata = None],
                      ctx.parentSerializerContext))

\* isFunction(x) && x.name !== ''
isCtorFunction(x) == x.isFunction /\ x.name # ""

\* Map.get on the discriminant map.
RECURSIVE DiscriminantOf(_, _, _)
DiscriminantOf(map, typeFn, i) ==
    IF i > Len(map) THEN None
    ELSE IF map[i].typeCtor = typeFn THEN Some(map[i].discriminant)
    ELSE DiscriminantOf(map, typeFn, i + 1)

WithTypeMetadata(ctx, type) ==
    SerializerContext(ctx.root, ctx.referenceMap, ctx.referenceCallbackMap,
                      [ctx.serializerContextOptions EXCEPT !.typeMetadata = type],
                      ctx.parentSerializerContext)

definePolymorphicSerializerContextByTypeFn(ctx, typeFn) ==
    IF DiscriminantOf(discriminantMap, typeFn.type, 1) = None
    THEN Threw("cannot define discriminant of polymorphic type", ctx)
    ELSE Gave(WithTypeMetadata(ctx, defineTypeMetadata(typeFn.type)))

\* for (const [typeCtor, discriminant] of this.discriminantMap) ...
RECURSIVE ScanDiscriminantMap(_, _, _)
ScanDiscriminantMap(ctx, record, i) ==
    IF i > Len(discriminantMap)
    THEN Threw("cannot define discriminant of polymorphic type", ctx)
    ELSE LET typeMetadata == defineTypeMetadata(discriminantMap[i].typeCtor) IN
         IF record.props[discriminator[typeMetadata]] = discriminantMap[i].discriminant
         THEN Gave(WithTypeMetadata(ctx, typeMetadata))
         ELSE ScanDiscriminantMap(ctx, record, i + 1)

\* (variant: every member is compared under the discriminator of the
\* context's own type)
RECURSIVE ScanWithOwnDiscriminator(_, _, _)
ScanWithOwnDiscriminator(ctx, record, i) ==
    IF i > Len(discriminantMap)
    THEN Threw("cannot define discriminant of polymorphic type", ctx)
    ELSE IF record.props[discriminator[discriminantMap[1].typeCtor]]
                = discriminantMap[i].discriminant
         THEN Gave(WithTypeMetadata(ctx, defineTypeMetadata(discriminantMap[i].typeCtor)))
         ELSE ScanWithOwnDiscriminator(ctx, record, i + 1)

definePolymorphicSerializerContextByDiscriminant_OwnDiscriminator(ctx, record) ==
    ScanWithOwnDiscriminator(ctx, record, 1)

definePolymorphicSerializerContextByDiscriminant(ctx, record) ==
    ScanDiscriminantMap(ctx, record, 1)

definePolymorphicSerializerContext(ctx, x) ==
    IF isCtorFunction(x)
    THEN definePolymorphicSerializerContextByTypeFn(ctx, x)
    ELSE definePolymorphicSerializerContextByDiscriminant(ctx, x)

\* The polymorphic types: the members and the root they are declared under.
ObjectTypes == {"A", "B", "C", "Root"}

\* get discriminator(), get discriminant(), get preserveDiscriminator(): the
\* ones of the context's Type Metadata.
ContextDiscriminator(ctx) == discriminator[ctx.serializerContextOptions.typeMetadata]
ContextDiscriminant(ctx) ==
    DiscriminantOf(discriminantMap, ctx.serializerContextOptions.typeMetadata, 1)
preserveDiscriminator(ctx) == typePreserve[ctx.serializerContextOptions.typeMetadata]

\* What a property declares: each entry is absent (None) unless declared.
PropertyMetadata(gen, null, default) ==
    [genericArguments |-> gen, preserveNull |-> null, useDefaultValue |-> default,
     useImplicitConversion |-> None, namingConvention |-> None,
     referenceHandler |-> None, serializer |-> None,
     serializedDefaultValue |-> None, deserializedDefaultValue |-> None]

\* The default value configured on the Type Metadata, one per direction, and
\* the one a property may declare.
SerializedDefault == [t |-> "default", id |-> 1, n |-> 0]
DeserializedDefault == [t |-> "default", id |-> 2, n |-> 0]
PropertySerializedDefault == [t |-> "default", id |-> 3, n |-> 0]
PropertyDeserializedDefault == [t |-> "default", id |-> 4, n |-> 0]

\* What the Type Metadata of a type holds of the configuration the context
\* reads; its serializer is named by the type, its generic arguments are
\* typeGen, errorEnabled is log.errorEnabled.
TypeMetadata(null, default) ==
    [preserveNull |-> null, useDefaultValue |-> default,
     useImplicitConversion |-> FALSE, namingConvention |-> None,
     referenceHandler |-> "Direct", errorEnabled |-> TRUE,
     serializedDefaultValue |-> SerializedDefault,
     deserializedDefaultValue |-> DeserializedDefault]

\* this.propertyMetadata?.name
PropertyValue(ctx, name) ==
    LET p == ctx.serializerContextOptions.propertyMetadata
    IN  IF p = None THEN None ELSE p[1][name]

\* this.typeMetadata.name
TypeValue(ctx, name) == policy[ctx.serializerContextOptions.typeMetadata][name]

namingConvention(ctx) ==
    Coalesce(PropertyValue(ctx, "namingConvention"), TypeValue(ctx, "namingConvention"))

referenceHandler(ctx) ==
    Coalesce(PropertyValue(ctx, "referenceHandler"), Some(TypeValue(ctx, "referenceHandler")))[1]

\* (variant: a || in place of the ??, so a declared false falls through)
preserveNull_FalseFallsThrough(ctx) ==
    IF PropertyValue(ctx, "preserveNull") = Some(TRUE) THEN TRUE
    ELSE TypeValue(ctx, "preserveNull")

preserveNull(ctx) ==
    Coalesce(PropertyValue(ctx, "preserveNull"), Some(TypeValue(ctx, "preserveNull")))[1]

useDefaultValue(ctx) ==
    Coalesce(PropertyValue(ctx, "useDefaultValue"), Some(TypeValue(ctx, "useDefaultValue")))[1]

useImplicitConversion(ctx) ==
    Coalesce(PropertyValue(ctx, "useImplicitConversion"),
             Some(TypeValue(ctx, "useImplicitConversion")))[1]

serializedDefaultValue(ctx) ==
    IF useDefaultValue(ctx)
    THEN Coalesce(PropertyValue(ctx, "serializedDefaultValue"),
                  Some(TypeValue(ctx, "serializedDefaultValue")))[1]
    ELSE Undefined

\* (variant: the default policy is consulted before null preservation)
serializedNullValue_DefaultFirst(ctx) ==
    IF useDefaultValue(ctx) THEN serializedDefaultValue(ctx)
    ELSE IF preserveNull(ctx) THEN Null ELSE Undefined

serializedNullValue(ctx) == IF preserveNull(ctx) THEN Null ELSE serializedDefaultValue(ctx)

deserializedDefaultValue(ctx) ==
    IF useDefaultValue(ctx)
    THEN Coalesce(PropertyValue(ctx, "deserializedDefaultValue"),
                  Some(TypeValue(ctx, "deserializedDefaultValue")))[1]
    ELSE Undefined

deserializedNullValue(ctx) == IF preserveNull(ctx) THEN Null ELSE deserializedDefaultValue(ctx)

\* get serializer(): the serializer of a collection type is named by the type.
serializer(ctx) ==
    Coalesce(PropertyValue(ctx, "serializer"),
             Some(ctx.serializerContextOptions.typeMetadata))[1]

\* -------------------------------------------------------- reference handler
\* The statements of the branch taken for a key with no entry, in program
\* order: set(key, key); initializer(); set(key, value);
\* resolveReferenceCallbacks(key); return value.
\* (variant: the queued callbacks are replayed before the entry is overwritten)
DefineOrder_ResolveFirst == <<"placeholder", "init", "resolve", "set", "return">>

DefineOrder == <<"placeholder", "init", "set", "resolve", "return">>
RestoreOrder == <<"placeholder", "init", "set", "resolve", "return">>

HandlerOrder == IF op = "serialize" THEN DefineOrder ELSE RestoreOrder

StepAfter(step) ==
    LET i == CHOOSE j \in 1..Len(HandlerOrder) : HandlerOrder[j] = step
    IN  HandlerOrder[i + 1]

\* What define does before it returns or calls the initializer: the branch, the
\* reference map it leaves, and what it returns (known at once unless it calls
\* the initializer).  n numbers the resolver closure it may create.
\* (variant: the placeholder is not told from a finished value)
define_NoCycleCheck(map, referenceKey, n) ==
    LET referenceValue == map[referenceKey.id] IN
    IF isNil(referenceValue)
    THEN [branch |-> "fresh", value |-> Undefined,
          referenceMap |-> [map EXCEPT ![referenceKey.id] = referenceKey]]
    ELSE [branch |-> "value", value |-> referenceValue, referenceMap |-> map]

\* (variant: a finished value is not reused, the initializer runs again)
define_NoReuse(map, referenceKey, n) ==
    LET referenceValue == map[referenceKey.id] IN
    IF isNil(referenceValue) \/ referenceValue # referenceKey
    THEN [branch |-> "fresh", value |-> Undefined,
          referenceMap |-> [map EXCEPT ![referenceKey.id] = referenceKey]]
    ELSE [branch |-> "cycle", value |-> Resolver(referenceKey.id, n), referenceMap |-> map]

\* (variant: a key in progress is initialized again)
define_Reenters(map, referenceKey, n) ==
    LET referenceValue == map[referenceKey.id] IN
    IF isNil(referenceValue) \/ referenceValue = referenceKey
    THEN [branch |-> "fresh", value |-> Undefined,
          referenceMap |-> [map EXCEPT ![referenceKey.id] = referenceKey]]
    ELSE [branch |-> "value", value |-> referenceValue, referenceMap |-> map]

define(map, referenceKey, n) ==
    LET referenceValue == map[referenceKey.id] IN
    IF isNil(referenceValue)
    THEN [branch |-> "fresh", value |-> Undefined,
          referenceMap |-> [map EXCEPT ![referenceKey.id] = referenceKey]]
    ELSE IF referenceValue = referenceKey
    THEN [branch |-> "cycle", value |-> Resolver(referenceKey.id, n), referenceMap |-> map]
    ELSE [branch |-> "value", value |-> referenceValue, referenceMap |-> map]

\* (variant: restore records no placeholder before it calls the initializer)
restore_NoPlaceholder(map, referenceKey, n) ==
    LET referenceValue == map[referenceKey.id] IN
    IF isNil(referenceValue)
    THEN [branch |-> "fresh", value |-> Undefined, referenceMap |-> map]
    ELSE IF referenceValue = referenceKey
    THEN [branch |-> "cycle", value |-> Resolver(referenceKey.id, n), referenceMap |-> map]
    ELSE [branch |-> "value", value |-> referenceValue, referenceMap |-> map]

restore(map, referenceKey, n) ==
    LET referenceValue == map[referenceKey.id] IN
    IF isNil(referenceValue)
    THEN [branch |-> "fresh", value |-> Undefined,
          referenceMap |-> [map EXCEPT ![referenceKey.id] = referenceKey]]
    ELSE IF referenceValue = referenceKey
    THEN [branch |-> "cycle", value |-> Resolver(referenceKey.id, n), referenceMap |-> map]
    ELSE [branch |-> "value", value |-> referenceValue, referenceMap |-> map]

\* The resolver () => referenceMap.get(referenceKey), invoked on a map.
InvokeResolverOn(map, resolver) == map[resolver.id]

\* ------------------------------------------------------------ callback queue
\* (variant: the callback is put in front of the ones queued before it)
pushReferenceCallback_Front(callbackMap, referenceKey, referenceCallback) ==
    [callbackMap EXCEPT ![referenceKey] = <<referenceCallback>> \o @]

pushReferenceCallback(callbackMap, referenceKey, referenceCallback) ==
    [callbackMap EXCEPT ![referenceKey] = Append(@, referenceCallback)]

\* The callback reads this.referenceMap when it runs and hands the value to the
\* setter; map is the identity of the map it closes over.
registerReferenceCallback(callbackMap, ctx, referenceKey) ==
    LET referenceValueSetter == ctx.serializerContextOptions.referenceValueSetter IN
    IF referenceValueSetter = None THEN callbackMap
    ELSE pushReferenceCallback(callbackMap, referenceKey,
                               [key |-> referenceKey, setter |-> referenceValueSetter[1],
                                map |-> ctx.referenceMap])

\* array[i] = v of a JavaScript array, i counted from 0.
ArraySet(items, i, v) ==
    IF i < 0 THEN items
    ELSE IF i < Len(items) THEN [items EXCEPT ![i + 1] = v]
    ELSE items \o [j \in 1..(i - Len(items)) |-> Undefined] \o <<v>>

\* set.add(v): insertion order, no second copy of the same value.
SetAdd(items, v) ==
    IF \E j \in 1..Len(items) : items[j] = v THEN items ELSE Append(items, v)

\* An array, a Set or a record under construction; i is the `let i` of the
\* loop that fills it, which the setters of SetSerializer.serialize close
\* over; tag is the discriminator field a record is given.
NewObject(kind) == [kind |-> kind, items |-> <<>>, i |-> -1, tag |-> None]

\* What a callback leaves behind when it only notes that it was called.
NotedCall(id) == [t |-> "called", id |-> id, n |-> 0]

\* The reference value setters: v => array[i] = v (SetSerializer.serialize),
\* v => set.add(v) (SetSerializer.deserialize), "assign this array slot", and
\* a callback of the caller's own that notes its call.
ApplySetter(h, setter, v) ==
    CASE setter.kind = "arrayAtI" ->
            [h EXCEPT ![setter.obj].items = ArraySet(@, h[setter.obj].i, v)]
      [] setter.kind = "setAdd" ->
            [h EXCEPT ![setter.obj].items = SetAdd(@, v)]
      [] setter.kind = "arrayAt" ->
            [h EXCEPT ![setter.obj].items = ArraySet(@, setter.index, v)]
      [] setter.kind = "append" ->
            [h EXCEPT ![setter.obj].items = Append(@, NotedCall(setter.index))]

\* for (const referenceCallback of referenceCallbacks) referenceCallback();
RECURSIVE RunCallbacks(_, _, _, _)
RunCallbacks(callbacks, i, map, h) ==
    IF i > Len(callbacks) THEN h
    ELSE RunCallbacks(callbacks, i + 1, map,
                      ApplySetter(h, callbacks[i].setter, map[callbacks[i].key]))

resolveReferenceCallbacks(callbackMap, referenceKey, map, h) ==
    RunCallbacks(callbackMap[referenceKey], 1, map, h)

\* --------------------------------------------------------------- serializers
\* isSet(x) when serializing (the Array serializer: isArray(x)); isArray(x)
\* when deserializing, where a raw node is an array or a record.  The
\* serializer of a polymorphic type takes the instances of the member classes.
IsCollection(ser, x) ==
    /\ x.t = "in"
    /\ IF ser \in ObjectTypes
       THEN op = "serialize" /\ graph[x.id].kind \in ObjectTypes
       ELSE graph[x.id].kind = (IF op = "serialize" THEN ser ELSE "Array")

\* get jsonPath(): the keys from the root context down to this one.
RECURSIVE jsonPath(_)
jsonPath(ctx) ==
    IF ctx.parentSerializerContext = None
    THEN <<ctx.serializerContextOptions.jsonPathKey>>
    ELSE Append(jsonPath(ctx.parentSerializerContext[1]),
                ctx.serializerContextOptions.jsonPathKey)

\* The text of a key: a number, or the name of a property; the key of the
\* root context is "$".
KeyText(key) ==
    IF key.isNumber THEN ToString(key.k)
    ELSE IF key.k = 0 THEN "$" ELSE "p" \o ToString(key.k)

\* get jsonPath(): the string.
RECURSIVE jsonPathText(_)
jsonPathText(ctx) ==
    LET jsonPathKey == ctx.serializerContextOptions.jsonPathKey
        parentSerializerContext == ctx.parentSerializerContext
    IN  IF parentSerializerContext = None THEN KeyText(jsonPathKey)
        ELSE IF jsonPathKey.isNumber
             THEN jsonPathText(parentSerializerContext[1]) \o "[" \o KeyText(jsonPathKey) \o "]"
             ELSE jsonPathText(parentSerializerContext[1]) \o "['" \o KeyText(jsonPathKey) \o "']"

\* (variant: the error is logged whether or not error logging is enabled)
LogError_Always(log, ctx, d) ==
    IF d.branch = "mismatch" THEN Append(log, [jsonPath |-> jsonPath(ctx), op |-> op])
    ELSE log

\* if (serializerContext.log.errorEnabled) serializerContext.log.error(...):
\* reached only by a value of another shape.
LogError(log, ctx, d) ==
    IF d.branch = "mismatch" /\ TypeValue(ctx, "errorEnabled")
    THEN Append(log, [jsonPath |-> jsonPath(ctx), op |-> op])
    ELSE log

\* defineReference / restoreReference: the context's reference handler.
handleReference(map, referenceKey, n) ==
    IF op = "serialize" THEN define(map, referenceKey, n) ELSE restore(map, referenceKey, n)

\* serialize(x, serializerContext) / deserialize(x, serializerContext) up to
\* the call of the value initializer: undefined, null, a collection, or a
\* value of another shape (logged, undefined).
\* (variant: a null input is answered with the default value)
serialize_NullAsDefault(ctx, x, map, n) ==
    IF isNil(x)
    THEN [branch |-> IF x.t = "null" THEN "null" ELSE "default", referenceMap |-> map,
          value |-> IF op = "serialize" THEN serializedDefaultValue(ctx)
                    ELSE deserializedDefaultValue(ctx)]
    ELSE IF IsCollection(serializer(ctx), x)
    THEN handleReference(map, x, n)
    ELSE [branch |-> "mismatch", referenceMap |-> map, value |-> Undefined]

serialize(ctx, x, map, n) ==
    IF x.t = "undefined"
    THEN [branch |-> "default", referenceMap |-> map,
          value |-> IF op = "serialize" THEN serializedDefaultValue(ctx)
                    ELSE deserializedDefaultValue(ctx)]
    ELSE IF x.t = "null"
    THEN [branch |-> "null", referenceMap |-> map,
          value |-> IF op = "serialize" THEN serializedNullValue(ctx)
                    ELSE deserializedNullValue(ctx)]
    ELSE IF IsCollection(serializer(ctx), x)
    THEN handleReference(map, x, n)
    ELSE [branch |-> "mismatch", referenceMap |-> map, value |-> Undefined]

\* What the initializer of each serializer builds.
ObjectKind(ser) ==
    IF ser \in ObjectTypes THEN "record"
    ELSE IF ser = "Set" /\ op = "deserialize" THEN "set" ELSE "array"

\* (variant: every element is keyed by 0)
SetValueSerializerContext_KeyZero(gctx, o, i) ==
    defineChildSerializerContext(gctx,
        Options(NumKey(0), gctx.serializerContextOptions.typeMetadata, None, None,
                Some([kind |-> IF op = "serialize" THEN "arrayAtI" ELSE "setAdd",
                      obj |-> o, index |-> 0])))

\* SetSerializer: the context of element i, with its reference value setter.
SetValueSerializerContext(gctx, o, i) ==
    defineChildSerializerContext(gctx,
        Options(NumKey(i), gctx.serializerContextOptions.typeMetadata, None, None,
                Some([kind |-> IF op = "serialize" THEN "arrayAtI" ELSE "setAdd",
                      obj |-> o, index |-> 0])))

\* Array serializer: the context of element i, derived from the generic
\* argument, with the setter that assigns slot i.
ArrayValueSerializerContext(gctx, o, i) ==
    defineChildSerializerContext(gctx,
        Options(NumKey(i), gctx.serializerContextOptions.typeMetadata, None,
                gctx.serializerContextOptions.genericArguments,
                Some([kind |-> "arrayAt", obj |-> o, index |-> i])))

\* Serializer of a polymorphic type: the context of property i, declared
\* with the polymorphic root as its type, with the setter of its field.
PropertySerializerContext(gctx, o, i) ==
    defineChildSerializerContext(gctx,
        Options(StrKey(i + 1), "Root", Some(PropertyMetadata(None, None, None)), None,
                Some([kind |-> "arrayAt", obj |-> o, index |-> i])))

ValueSerializerContext(ser, gctx, o, i) ==
    IF ser = "Set" THEN SetValueSerializerContext(gctx, o, i)
    ELSE IF ser \in ObjectTypes THEN PropertySerializerContext(gctx, o, i)
    ELSE ArrayValueSerializerContext(gctx, o, i)

\* The context the initializer works under: the generic context of a
\* collection, the polymorphic context of the instance's class for a
\* polymorphic type (x.constructor).
InitializerContext(f) ==
    IF f.ser \in ObjectTypes
    THEN definePolymorphicSerializerContext(f.ctx, typeCtors[graph[f.key].kind])
    ELSE defineGenericSerializerContext(f.ctx, 0)

\* The object the initializer fills: a record is given the discriminator
\* field of its context when the discriminator is preserved.
InitializerObject(f, ctx) ==
    IF f.ser \in ObjectTypes /\ preserveDiscriminator(ctx)
    THEN [NewObject(ObjectKind(f.ser)) EXCEPT
             !.tag = Some([discriminator |-> ContextDiscriminator(ctx),
                           discriminant |-> ContextDiscriminant(ctx)])]
    ELSE NewObject(ObjectKind(f.ser))

\* (variant: the serialized element is put in front of the ones before it)
SetStore_Unshift(h, callbackMap, o, ctx, referenceKey, r) ==
    [heap |-> IF op = "serialize"
              THEN [h EXCEPT ![o].items = <<r>> \o @]
              ELSE [h EXCEPT ![o].items = SetAdd(@, r)],
     callbackMap |-> callbackMap]

\* SetSerializer: array[i] = valueSerializerContext.serialize(v), or
\* set.add(valueSerializerContext.deserialize(array[i])).
SetStore(h, callbackMap, o, ctx, referenceKey, r) ==
    [heap |-> IF op = "serialize"
              THEN [h EXCEPT ![o].items = ArraySet(@, h[o].i, r)]
              ELSE [h EXCEPT ![o].items = SetAdd(@, r)],
     callbackMap |-> callbackMap]

\* Array serializer: a resolver is not stored; the slot's setter is queued on
\* the key's callback queue.
ArrayStore(h, callbackMap, o, ctx, referenceKey, r) ==
    IF isFunction(r)
    THEN [heap |-> h, callbackMap |-> registerReferenceCallback(callbackMap, ctx, referenceKey)]
    ELSE [heap |-> [h EXCEPT ![o].items = ArraySet(@, h[o].i, r)],
          callbackMap |-> callbackMap]

Store(ser, h, callbackMap, o, ctx, referenceKey, r) ==
    IF ser = "Set" THEN SetStore(h, callbackMap, o, ctx, referenceKey, r)
    ELSE ArrayStore(h, callbackMap, o, ctx, referenceKey, r)

\* ------------------------------------------------------------------- frames
\* One running value initializer: the key being visited, the context it was
\* visited under, where the handler (pc) and the initializer (at) stand, the
\* generic context, the object under construction, the elements done.
Frame(key, ctx) ==
    [key |-> key, ctx |-> ctx, ser |-> serializer(ctx), pc |-> "init", at |-> "generic",
     gctx |-> None, out |-> 0, pos |-> 0, value |-> None]

Top == stack[Len(stack)]
Rest == SubSeq(stack, 1, Len(stack) - 1)
Elems(k) == graph[k].elems
WithTop(f) == [stack EXCEPT ![Len(stack)] = f]

Finished(k) == \E j \in 1..Len(trace[k]) : trace[k][j] = "return"

\* --------------------------------------------------------------------- Init
SeqsUpTo(S, n) == UNION {[1..m -> S] : m \in 0..n}
NoDup(s) == \A i, j \in 1..Len(s) : i # j => s[i] # s[j]

\* A Set holds no instance twice; an array may; a raw record is not a
\* sequence and has no elements.
Instances(kinds) ==
    {r \in [kind : kinds, elems : SeqsUpTo(Nodes, MaxElems)] :
        /\ r.kind = "Set" => NoDup(r.elems)
        /\ r.kind = "Record" => r.elems = <<>>}

GenericArgumentChoices == {None, Some(<<Bare("Set")>>), Some(<<Bare("Array")>>)}
RootGenericArgumentChoices == {None, Some(<<Pair("Set", <<Bare("Array")>>)>>)}

\* What the property the root value is visited under may declare.
RootPropertyChoices ==
    {None} \cup {Some(PropertyMetadata(None, null, default)) :
                    null, default \in {None, Some(TRUE), Some(FALSE)}}

PolyTypes == {"A", "B", "C"}
NoCall == None

\* A fresh operation: empty maps, nothing built, nothing recorded.
Fresh ==
    /\ referenceMap = [k \in Nodes |-> Undefined]
    /\ referenceCallbackMap = [k \in Nodes |-> <<>>]
    /\ stack = <<>>
    /\ heap = <<>>
    /\ status = "idle"
    /\ result = Undefined
    /\ resolverCount = 0
    /\ initCount = [k \in Nodes |-> 0]
    /\ trace = [k \in Nodes |-> <<>>]
    /\ replayed = <<>>
    /\ returned = {}
    /\ resolverReads = {}
    /\ logged = <<>>

\* A single operation: none waits; the registry is as the program starts.
OneOperation ==
    /\ cur = 1
    /\ others = <<>>
    /\ registry = InitialRegistry

\* A class declared with a name and no static property of its own.
NamedCtor(type) ==
    [isFunction |-> TRUE, name |-> "named", type |-> type,
     props |-> [d \in {"tag", "kind"} |-> "undefined"]]

\* The classes are declared with names; no discriminator is preserved.
PlainClasses ==
    /\ typePreserve = [t \in PolyTypes |-> FALSE]
    /\ typeCtors = [t \in PolyTypes |-> NamedCtor(t)]

NoPolymorphism ==
    /\ discriminantMap = <<>>
    /\ discriminator = [t \in PolyTypes |-> "tag"]
    /\ PlainClasses

Init ==
    /\ op \in {"serialize", "deserialize"}
    /\ \/ /\ rootValue = In(1)
          /\ \E enabled \in BOOLEAN :
                policy = [t \in Types |->
                             [TypeMetadata(FALSE, FALSE) EXCEPT !.errorEnabled = enabled]]
          /\ graph \in [Nodes -> Instances(IF op = "serialize" THEN Types
                                           ELSE {"Array", "Record"})]
          /\ typeGen \in [Types -> GenericArgumentChoices]
          /\ \E type \in Types, gen \in RootGenericArgumentChoices :
                rootCtx = SerializerContext(rootValue, 1, 1,
                                            Options(RootKey, type, None, gen, None), None)
       \/ /\ rootValue \in {Undefined, Null}
          /\ policy \in [Types -> {TypeMetadata(null, default) : null, default \in BOOLEAN}]
          /\ graph = [k \in Nodes |-> [kind |-> "Array", elems |-> <<>>]]
          /\ typeGen = [t \in Types |-> None]
          /\ \E type \in Types, prop \in RootPropertyChoices :
                rootCtx = SerializerContext(rootValue, 1, 1,
                                            Options(RootKey, type, prop, None, None), None)
    /\ NoPolymorphism
    /\ Fresh
    /\ OneOperation
    /\ fnIn = NoCall
    /\ fnOut = NoCall

\* ------------------------------------------------------------------ actions
Record(d, key) == [key |-> key, branch |-> d.branch, value |-> d.value]

\* The top-level call reaches a key with no entry: placeholder, initializer.
CallFresh ==
    /\ status = "idle"
    /\ LET d == serialize(rootCtx, rootValue, referenceMap, resolverCount + 1) IN
       /\ d.branch = "fresh"
       /\ referenceMap' = d.referenceMap
       /\ stack' = <<Frame(rootValue.id, rootCtx)>>
       /\ status' = "running"
       /\ initCount' = [initCount EXCEPT ![rootValue.id] = @ + 1]
       /\ trace' = [trace EXCEPT ![rootValue.id] = <<"placeholder", "init">>]
    /\ UNCHANGED <<registry, schedule, config, referenceCallbackMap, heap, result, resolverCount,
                   replayed, returned, resolverReads, logged, call>>

\* The top-level call returns at once: undefined, null or a shape mismatch.
CallImmediate ==
    /\ status = "idle"
    /\ LET d == serialize(rootCtx, rootValue, referenceMap, resolverCount + 1) IN
       /\ d.branch # "fresh"
       /\ referenceMap' = d.referenceMap
       /\ result' = d.value
       /\ returned' = returned \cup {Record(d, rootValue.id)}
       /\ logged' = LogError(logged, rootCtx, d)
    /\ status' = "done"
    /\ UNCHANGED <<registry, schedule, config, referenceCallbackMap, stack, heap, resolverCount,
                   initCount, trace, replayed, resolverReads, call>>

\* (variant: define stores what the interrupted initializer left behind)
InitGeneric_StoresOnError ==
    /\ status = "running"
    /\ Top.pc = "init" /\ Top.at = "generic"
    /\ LET g == InitializerContext(Top) IN
       \/ /\ g.threw
          /\ status' = "error"
          /\ stack' = <<>>
          /\ heap' = heap
          /\ referenceMap' = [referenceMap EXCEPT ![Top.key] = Undefined]
       \/ /\ ~g.threw
          /\ heap' = Append(heap, InitializerObject(Top, g.ctx))
          /\ stack' = WithTop([Top EXCEPT !.at = "loop", !.gctx = Some(g.ctx),
                                          !.out = Len(heap) + 1])
          /\ status' = status
          /\ referenceMap' = referenceMap
    /\ UNCHANGED <<registry, schedule, config, referenceCallbackMap, result, resolverCount,
                   history, call>>

\* The initializer starts: new Array / new Set and the generic context, or
\* the polymorphic context and the record.
InitGeneric ==
    /\ status = "running"
    /\ Top.pc = "init" /\ Top.at = "generic"
    /\ LET g == InitializerContext(Top) IN
       \/ /\ g.threw
          \* the error leaves every running initializer and the operation
          /\ status' = "error"
          /\ stack' = <<>>
          /\ heap' = heap
       \/ /\ ~g.threw
          /\ heap' = Append(heap, InitializerObject(Top, g.ctx))
          /\ stack' = WithTop([Top EXCEPT !.at = "loop", !.gctx = Some(g.ctx),
                                          !.out = Len(heap) + 1])
          /\ status' = status
    /\ UNCHANGED <<registry, schedule, config, referenceMap, referenceCallbackMap, result, resolverCount,
                   history, call>>

\* The next element is a key with no entry: placeholder, initializer.
VisitFresh ==
    /\ status = "running"
    /\ Top.pc = "init" /\ Top.at = "loop" /\ Top.pos < Len(Elems(Top.key))
    /\ Len(stack) < MaxDepth
    /\ LET x == In(Elems(Top.key)[Top.pos + 1])
           ctx == ValueSerializerContext(Top.ser, Top.gctx[1], Top.out, Top.pos)
           d == serialize(ctx, x, referenceMap, resolverCount + 1)
       IN /\ d.branch = "fresh"
          /\ referenceMap' = d.referenceMap
          /\ heap' = [heap EXCEPT ![Top.out].i = Top.pos]
          /\ stack' = Append(stack, Frame(x.id, ctx))
          /\ initCount' = [initCount EXCEPT ![x.id] = @ + 1]
          /\ trace' = [trace EXCEPT ![x.id] = <<"placeholder", "init">>]
    /\ UNCHANGED <<registry, schedule, config, referenceCallbackMap, status, result, resolverCount,
                   replayed, returned, resolverReads, logged, call>>

\* The next element's visit returns at once: a resolver, a finished value, or
\* undefined for a value of another shape.  The result goes to the element's
\* slot as the serializer of the collection does it.
VisitImmediate ==
    /\ status = "running"
    /\ Top.pc = "init" /\ Top.at = "loop" /\ Top.pos < Len(Elems(Top.key))
    /\ LET x == In(Elems(Top.key)[Top.pos + 1])
           ctx == ValueSerializerContext(Top.ser, Top.gctx[1], Top.out, Top.pos)
           d == serialize(ctx, x, referenceMap, resolverCount + 1)
           s == Store(Top.ser, [heap EXCEPT ![Top.out].i = Top.pos],
                      referenceCallbackMap, Top.out, ctx, x.id, d.value)
       IN /\ d.branch # "fresh"
          /\ referenceMap' = d.referenceMap
          /\ heap' = s.heap
          /\ referenceCallbackMap' = s.callbackMap
          /\ resolverCount' = IF d.branch = "cycle" THEN resolverCount + 1 ELSE resolverCount
          /\ returned' = returned \cup {Record(d, x.id)}
          /\ logged' = LogError(logged, ctx, d)
    /\ stack' = WithTop([Top EXCEPT !.pos = @ + 1])
    /\ UNCHANGED <<registry, schedule, config, status, result, initCount, trace, replayed,
                   resolverReads, call>>

\* The loop is over: the initializer returns what it built.
InitReturn ==
    /\ status = "running"
    /\ Top.pc = "init" /\ Top.at = "loop" /\ Top.pos = Len(Elems(Top.key))
    /\ stack' = WithTop([Top EXCEPT !.pc = StepAfter("init"), !.at = "returned",
                                    !.value = Some(Out(Top.out))])
    /\ UNCHANGED <<registry, schedule, config, referenceMap, referenceCallbackMap, heap, status, result,
                   resolverCount, history, call>>

\* referenceMap.set(referenceKey, value)
SetValue ==
    /\ status = "running"
    /\ Top.pc = "set"
    /\ referenceMap' = [referenceMap EXCEPT ![Top.key] = Top.value[1]]
    /\ stack' = WithTop([Top EXCEPT !.pc = StepAfter("set")])
    /\ trace' = [trace EXCEPT ![Top.key] = Append(@, "set")]
    /\ UNCHANGED <<registry, schedule, config, referenceCallbackMap, heap, status, result, resolverCount,
                   initCount, replayed, returned, resolverReads, logged, call>>

\* serializerContext.resolveReferenceCallbacks(referenceKey)
ResolveCallbacks ==
    /\ status = "running"
    /\ Top.pc = "resolve"
    /\ heap' = resolveReferenceCallbacks(referenceCallbackMap, Top.key, referenceMap, heap)
    /\ replayed' = replayed \o
          [j \in 1..Len(referenceCallbackMap[Top.key]) |->
              [queue |-> Top.key,
               key |-> referenceCallbackMap[Top.key][j].key,
               read |-> referenceMap[referenceCallbackMap[Top.key][j].key],
               map |-> referenceCallbackMap[Top.key][j].map,
               setter |-> referenceCallbackMap[Top.key][j].setter]]
    /\ stack' = WithTop([Top EXCEPT !.pc = StepAfter("resolve")])
    /\ trace' = [trace EXCEPT ![Top.key] = Append(@, "resolve")]
    /\ UNCHANGED <<registry, schedule, config, referenceMap, referenceCallbackMap, status, result,
                   resolverCount, initCount, returned, resolverReads, logged, call>>

\* return value: to the slot of the collection that visited the key, or to the
\* caller of the operation.
Return ==
    /\ status = "running"
    /\ Top.pc = "return"
    /\ LET v == Top.value[1] IN
       /\ returned' = returned \cup {[key |-> Top.key, branch |-> "fresh", value |-> v]}
       /\ IF Len(stack) = 1
          THEN /\ result' = v
               /\ status' = "done"
               /\ stack' = <<>>
               /\ UNCHANGED <<heap, referenceCallbackMap>>
          ELSE LET p == Rest[Len(Rest)]
                   s == Store(p.ser, heap, referenceCallbackMap, p.out, Top.ctx, Top.key, v)
               IN /\ heap' = s.heap
                  /\ referenceCallbackMap' = s.callbackMap
                  /\ stack' = [Rest EXCEPT ![Len(Rest)] = [p EXCEPT !.pos = @ + 1]]
                  /\ UNCHANGED <<result, status>>
    /\ trace' = [trace EXCEPT ![Top.key] = Append(@, "return")]
    /\ UNCHANGED <<registry, schedule, config, referenceMap, resolverCount, initCount, replayed,
                   resolverReads, logged, call>>

\* Whoever holds a resolver may invoke it, at any time.
HeldValues == {result} \cup UNION {{heap[o].items[j] : j \in 1..Len(heap[o].items)} :
                                      o \in 1..Len(heap)}

InvokeResolver ==
    /\ \E r \in HeldValues :
          /\ isFunction(r)
          /\ LET e == [key |-> r.id, n |-> r.n, finished |-> Finished(r.id),
                       read |-> InvokeResolverOn(referenceMap, r)]
             IN /\ e \notin resolverReads
                /\ resolverReads' = resolverReads \cup {e}
    /\ UNCHANGED <<registry, schedule, config, referenceMap, referenceCallbackMap, stack, heap, status,
                   result, resolverCount, initCount, trace, replayed, returned, logged,
                   call>>

Step ==
    \/ CallFresh
    \/ CallImmediate
    \/ InitGeneric
    \/ VisitFresh
    \/ VisitImmediate
    \/ InitReturn
    \/ SetValue
    \/ ResolveCallbacks
    \/ Return

Next == Step \/ InvokeResolver

Spec == Init /\ [][Next]_vars

\* The traversal is synchronous: a step that can be taken is taken.
FairSpec == Spec /\ WF_vars(Step)

\* ------------------------------------------------ context derivation calls
MaxMembers == 2
MaxArgs == 2

\* No operation is running while a single derivation call is examined.
NoOperation ==
    /\ op = "deserialize"
    /\ rootValue = Undefined
    /\ policy = [t \in Types |-> TypeMetadata(FALSE, FALSE)]
    /\ graph = [k \in Nodes |-> [kind |-> "Array", elems |-> <<>>]]
    /\ Fresh
    /\ OneOperation

Discriminators == {"tag", "kind"}
Discriminants == {"X", "Y"}
\* What a record holds under a field: a discriminant, another tag, nothing.
FieldValues == Discriminants \cup {"Z", "undefined"}

\* Map<TypeFn, Discriminant>: no type twice, in insertion order.
DiscriminantMaps ==
    {m \in SeqsUpTo([typeCtor : PolyTypes, discriminant : Discriminants], MaxMembers) :
        \A i, j \in 1..Len(m) : i # j => m[i].typeCtor # m[j].typeCtor}

\* What definePolymorphicSerializerContext is given: a raw record, or a class
\* (a constructor function), declared with a name or anonymous, with its
\* static properties.
Records ==
    {[isFunction |-> FALSE, name |-> "", type |-> "", props |-> p] :
        p \in [Discriminators -> FieldValues]}
Classes ==
    {[isFunction |-> TRUE, name |-> n, type |-> t, props |-> p] :
        t \in PolyTypes, n \in {"", "named"}, p \in [Discriminators -> {"undefined", "X"}]}

PolyRootCtx ==
    SerializerContext(Undefined, 1, 1, Options(RootKey, "Root", None, None, None), None)
PolyFieldCtx ==
    SerializerContext(Undefined, 1, 1,
                      Options(StrKey(1), "Root", Some(PropertyMetadata(None, None, None)),
                              Some(<<Bare("Set")>>), None),
                      Some(PolyRootCtx))

InitPoly ==
    /\ NoOperation
    /\ typeGen = [t \in Types |-> None]
    /\ rootCtx = PolyRootCtx
    /\ discriminantMap \in DiscriminantMaps
    /\ discriminator \in [PolyTypes -> Discriminators]
    /\ PlainClasses
    /\ fnIn = NoCall
    /\ fnOut = NoCall

PolyCall ==
    /\ fnIn = NoCall
    /\ \E ctx \in {PolyRootCtx, PolyFieldCtx}, x \in Records \cup Classes :
          /\ fnIn' = Some([ctx |-> ctx, x |-> x])
          /\ fnOut' = Some(definePolymorphicSerializerContext(ctx, x))
    /\ UNCHANGED <<registry, schedule, config, referenceMap, referenceCallbackMap, stack, heap, status,
                   result, resolverCount, history>>

NextPoly == PolyCall

SpecPoly == InitPoly /\ [][NextPoly]_vars

GenericArguments ==
    {Bare(t) : t \in Types} \cup {Pair(t, <<Bare(u)>>) : t, u \in Types}
GenericArgumentLists == {None} \cup {Some(l) : l \in SeqsUpTo(GenericArguments, MaxArgs)}
PropertyChoices ==
    {None} \cup {Some(PropertyMetadata(g, None, None)) :
                    g \in {None, Some(<<Bare("Array")>>),
                           Some(<<Pair("Array", <<Bare("Set")>>)>>)}}

GenericRootCtx ==
    SerializerContext(Undefined, 1, 1, Options(RootKey, "Set", None, None, None), None)
GenericContexts ==
    {SerializerContext(Undefined, 1, 1, Options(StrKey(1), type, prop, gen, None), parent) :
        type \in Types, prop \in PropertyChoices, gen \in GenericArgumentLists,
        parent \in {None, Some(GenericRootCtx)}}

InitGenericCall ==
    /\ NoOperation
    /\ NoPolymorphism
    /\ typeGen \in [Types -> {None, Some(<<Bare("Set")>>)}]
    /\ rootCtx = GenericRootCtx
    /\ fnIn = NoCall
    /\ fnOut = NoCall

GenericCall ==
    /\ fnIn = NoCall
    /\ \E ctx \in GenericContexts, genericIndex \in (-1)..MaxArgs :
          /\ fnIn' = Some([ctx |-> ctx, genericIndex |-> genericIndex])
          /\ fnOut' = Some(defineGenericSerializerContext(ctx, genericIndex))
    /\ UNCHANGED <<registry, schedule, config, referenceMap, referenceCallbackMap, stack, heap, status,
                   result, resolverCount, history>>

NextGeneric == GenericCall

SpecGeneric == InitGenericCall /\ [][NextGeneric]_vars

\* ------------------------------------------- effective configuration reads
\* The Type Metadata configurations and the Property Metadata declarations the
\* reads are examined on.
TypeMetadatas ==
    {[TypeMetadata(null, default) EXCEPT !.useImplicitConversion = implicit]
        : null, default, implicit \in BOOLEAN}
    \cup
    {[preserveNull |-> null, useDefaultValue |-> default,
      useImplicitConversion |-> implicit, namingConvention |-> Some("camelCase"),
      referenceHandler |-> "Path", errorEnabled |-> FALSE,
      serializedDefaultValue |-> Null, deserializedDefaultValue |-> Undefined]
        : null, default, implicit \in BOOLEAN}

OptionalBoolean == {None, Some(TRUE), Some(FALSE)}

PropertyMetadatas ==
    {[PropertyMetadata(gen, null, default) EXCEPT !.useImplicitConversion = implicit]
        : gen \in {None, Some(<<Bare("Array")>>)},
          null \in OptionalBoolean, default \in OptionalBoolean,
          implicit \in OptionalBoolean}
    \cup
    {[genericArguments |-> gen, preserveNull |-> null, useDefaultValue |-> default,
      useImplicitConversion |-> implicit, namingConvention |-> Some("snakeCase"),
      referenceHandler |-> Some("Lead"), serializer |-> Some("Array"),
      serializedDefaultValue |-> Some(PropertySerializedDefault),
      deserializedDefaultValue |-> Some(PropertyDeserializedDefault)]
        : gen \in {None, Some(<<Bare("Array")>>)},
          null \in OptionalBoolean, default \in OptionalBoolean,
          implicit \in OptionalBoolean}

ConfigContexts ==
    {SerializerContext(Undefined, 1, 1, Options(StrKey(1), type, prop, gen, None),
                       Some(GenericRootCtx)) :
        type \in Types,
        prop \in {None} \cup {Some(p) : p \in PropertyMetadatas},
        gen \in {None, Some(<<Bare("Set")>>)}}

\* Every effective-configuration getter of a context, read at once.
EffectiveConfiguration(ctx) ==
    [serializer |-> serializer(ctx),
     referenceHandler |-> referenceHandler(ctx),
     namingConvention |-> namingConvention(ctx),
     preserveNull |-> preserveNull(ctx),
     useDefaultValue |-> useDefaultValue(ctx),
     useImplicitConversion |-> useImplicitConversion(ctx),
     serializedDefaultValue |-> serializedDefaultValue(ctx),
     deserializedDefaultValue |-> deserializedDefaultValue(ctx),
     serializedNullValue |-> serializedNullValue(ctx),
     deserializedNullValue |-> deserializedNullValue(ctx),
     genericArguments |-> genericArguments(ctx)]

\* The contexts SetSerializer derives for the elements of a value visited
\* under ctx: the generic context, then the context of element 0.
ElementContexts(ctx) ==
    LET g == defineGenericSerializerContext(ctx, 0) IN
    IF g.threw THEN None
    ELSE LET element == SetValueSerializerContext(g.ctx, 1, 0)
         IN  Some([generic |-> g.ctx, element |-> element,
                   configuration |-> EffectiveConfiguration(element)])

InitConfig ==
    /\ op \in {"serialize", "deserialize"}
    /\ rootValue = Undefined
    /\ graph = [k \in Nodes |-> [kind |-> "Array", elems |-> <<>>]]
    /\ policy \in [Types -> TypeMetadatas]
    /\ typeGen \in {[t \in Types |-> g] : g \in {None, Some(<<Bare("Set")>>)}}
    /\ rootCtx = GenericRootCtx
    /\ NoPolymorphism
    /\ Fresh
    /\ OneOperation
    /\ fnIn = NoCall
    /\ fnOut = NoCall

ConfigRead ==
    /\ fnIn = NoCall
    /\ \E ctx \in ConfigContexts :
          /\ fnIn' = Some([ctx |-> ctx])
          /\ fnOut' = Some([configuration |-> EffectiveConfiguration(ctx),
                            elements |-> ElementContexts(ctx)])
    /\ UNCHANGED <<registry, schedule, config, referenceMap, referenceCallbackMap, stack, heap, status,
                   result, resolverCount, history>>

NextConfig == ConfigRead

SpecConfig == InitConfig /\ [][NextConfig]_vars

\* ------------------------------------------------- chains of derivations
MaxDerive == 3

DeriveTypes == Types \cup PolyTypes \cup {"Root"}

\* The options a serializer may hand to defineChildSerializerContext.
ChildOptions ==
    {Options(key, type, prop, gen, None) :
        key \in {NumKey(0), StrKey(1)},
        type \in {"Set", "A"},
        prop \in {None, Some(PropertyMetadata(Some(<<Bare("Array")>>), None, None))},
        gen \in {None, Some(<<Bare("Set")>>)}}

DeriveRecords ==
    {[isFunction |-> FALSE, name |-> "", type |-> "", props |-> p] :
        p \in [Discriminators -> {"X", "Z"}]}
DeriveClasses ==
    {[isFunction |-> TRUE, name |-> "named", type |-> t,
      props |-> [d \in Discriminators |-> "undefined"]] : t \in {"A", "B"}}

InitDerive ==
    /\ op = "deserialize"
    /\ rootValue = In(1)
    /\ graph = [k \in Nodes |-> [kind |-> "Array", elems |-> <<>>]]
    /\ policy = [t \in Types |-> TypeMetadata(FALSE, FALSE)]
    /\ Fresh
    /\ OneOperation
    /\ typeGen \in {[t \in DeriveTypes |-> g] : g \in {None, Some(<<Bare("Set"), Bare("B")>>)}}
    /\ discriminantMap = <<[typeCtor |-> "A", discriminant |-> "X"],
                           [typeCtor |-> "B", discriminant |-> "Y"]>>
    /\ discriminator = [t \in PolyTypes |-> IF t = "A" THEN "kind" ELSE "tag"]
    /\ PlainClasses
    /\ \E map \in 1..2, callbackMap \in 1..2 :
          rootCtx = SerializerContext(rootValue, map, callbackMap,
                                      Options(RootKey, "Root", None, None, None), None)
    /\ fnIn = Some([ctx |-> rootCtx, call |-> "root", depth |-> 0])
    /\ fnOut = Some(Gave(rootCtx))

\* The context the chain has reached; nothing is derived after a throw.
CanDerive == ~fnOut[1].threw /\ fnIn[1].depth < MaxDerive
Derived(kind, outcome) ==
    /\ fnIn' = Some([ctx |-> fnOut[1].ctx, call |-> kind, depth |-> fnIn[1].depth + 1])
    /\ fnOut' = Some(outcome)
    /\ UNCHANGED <<registry, schedule, config, referenceMap, referenceCallbackMap, stack, heap, status,
                   result, resolverCount, history>>

DeriveChild ==
    /\ CanDerive
    /\ \E options \in ChildOptions :
          Derived("child", Gave(defineChildSerializerContext(fnOut[1].ctx, options)))

DeriveGeneric ==
    /\ CanDerive
    /\ \E genericIndex \in 0..1 :
          Derived("generic", defineGenericSerializerContext(fnOut[1].ctx, genericIndex))

DerivePolymorphic ==
    /\ CanDerive
    /\ \E x \in DeriveRecords \cup DeriveClasses :
          Derived("polymorphic", definePolymorphicSerializerContext(fnOut[1].ctx, x))

NextDerive == DeriveChild \/ DeriveGeneric \/ DerivePolymorphic

SpecDerive == InitDerive /\ [][NextDerive]_vars

\* ------------------------------------------------------- registry calls
MaxCalls == 3

\* The options a registration may give.
RegisteredOptions ==
    {TypeOptions(Some("a"), None, None, None),
     TypeOptions(Some("b"), Some(TRUE), None, None),
     TypeOptions(None, Some(FALSE), Some("x"), None),
     TypeOptions(None, None, None, Some({"p"}))}

TypeArguments ==
    {AliasArgument(a) : a \in Aliases}
    \cup {CtorArgument(t) : t \in RegTypes}
    \cup {LazyArgument(y) : y \in {None, Some("Sub")}}

InitRegistry ==
    /\ NoOperation
    /\ NoPolymorphism
    /\ typeGen = [t \in Types |-> None]
    /\ rootCtx = GenericRootCtx
    /\ fnIn = Some([call |-> "start", calls |-> 0, typeCtor |-> "", typeOptions |-> NoOptions,
                    typeArgument |-> LazyArgument(None), before |-> InitialRegistry])
    /\ fnOut = NoCall

\* One call on the registry: what was called with what, on which registry.
Called(name, typeCtor, typeOptions, typeArgument) ==
    fnIn' = Some([call |-> name, calls |-> fnIn[1].calls + 1, typeCtor |-> typeCtor,
                  typeOptions |-> typeOptions, typeArgument |-> typeArgument,
                  before |-> registry])
RegistryFrame ==
    UNCHANGED <<schedule, config, referenceMap, referenceCallbackMap, stack, heap, status,
                result, resolverCount, history>>

\* TypeArtisan.configureTypeOptions(typeCtor, typeOptions)
Register ==
    /\ fnIn[1].calls < MaxCalls
    /\ \E typeCtor \in RegTypes, typeOptions \in RegisteredOptions :
          /\ registry' = configureTypeOptions(registry, typeCtor, typeOptions)
          /\ Called("configureTypeOptions", typeCtor, typeOptions, LazyArgument(None))
          /\ fnOut' = NoCall
    /\ RegistryFrame

\* TypeArtisan.defineTypeMetadata(typeCtor, typeOptions), as a decorator calls it
Define ==
    /\ fnIn[1].calls < MaxCalls
    /\ \E typeCtor \in RegTypes \ {"Number"},
          typeOptions \in {NoOptions, TypeOptions(None, None, None, Some({"q"}))} :
          LET d == TypeArtisan_defineTypeMetadata(registry, typeCtor, typeOptions) IN
          /\ registry' = d.registry
          /\ Called("defineTypeMetadata", typeCtor, typeOptions, LazyArgument(None))
          /\ fnOut' = Some(Resolved(FALSE, d.registry, Some(d.typeMetadata)))
    /\ RegistryFrame

\* TypeArtisan.resolveTypeMetadata(typeArgument)
Resolve ==
    /\ fnIn[1].calls < MaxCalls
    /\ \E typeArgument \in TypeArguments :
          LET d == resolveTypeMetadata(registry, typeArgument) IN
          /\ registry' = d.registry
          /\ Called("resolveTypeMetadata", "", NoOptions, typeArgument)
          /\ fnOut' = Some(d)
    /\ RegistryFrame

NextRegistry == Register \/ Define \/ Resolve

SpecRegistry == InitRegistry /\ [][NextRegistry]_vars

\* ------------------------------------------------ concurrent operations
\* The maps a top-level serialize / deserialize call creates for itself: a new
\* pair per call, told apart by the call.
\* (variant: one pair of maps serves every call)
NewMaps_Shared(id) == 1

NewMaps(id) == id

\* The state of an operation: what it was given and how far it has come.
Operation ==
    [op |-> op, rootValue |-> rootValue, rootCtx |-> rootCtx,
     referenceMap |-> referenceMap, referenceCallbackMap |-> referenceCallbackMap,
     stack |-> stack, heap |-> heap, status |-> status, result |-> result,
     resolverCount |-> resolverCount, initCount |-> initCount, trace |-> trace,
     replayed |-> replayed, returned |-> returned, resolverReads |-> resolverReads,
     logged |-> logged]

\* The root context of a top-level call on x under the given type.
RootSerializerContext(id, x, type) ==
    SerializerContext(x, NewMaps(id), NewMaps(id),
                      Options(RootKey, type, None, None, None), None)

\* A top-level call that has not taken a step.
NewOperation(id, kind, x, type) ==
    [op |-> kind, rootValue |-> x, rootCtx |-> RootSerializerContext(id, x, type),
     referenceMap |-> [k \in Nodes |-> Undefined],
     referenceCallbackMap |-> [k \in Nodes |-> <<>>],
     stack |-> <<>>, heap |-> <<>>, status |-> "idle", result |-> Undefined,
     resolverCount |-> 0, initCount |-> [k \in Nodes |-> 0],
     trace |-> [k \in Nodes |-> <<>>], replayed |-> <<>>, returned |-> {},
     resolverReads |-> {}, logged |-> <<>>]

Ended(o) == o.status \in {"done", "error"}

\* Operations 1 and 2 run interleaved; operation 3 is given what operation 1
\* was given and runs once both have ended, with nothing beside it.
SecondOperations ==
    {[op |-> "serialize", x |-> In(1)], [op |-> "deserialize", x |-> In(MaxNodes)]}

InitTwo ==
    /\ \E kind \in {"Set", "Array"} :
          graph \in [Nodes -> Instances({kind})]
    /\ typeGen \in {[t \in Types |-> None], [t \in Types |-> Some(<<Bare(t)>>)]}
    /\ policy = [t \in Types |-> TypeMetadata(FALSE, FALSE)]
    /\ NoPolymorphism
    /\ Fresh
    /\ cur = 1
    /\ registry = InitialRegistry
    /\ \E kind \in {"serialize", "deserialize"}, second \in SecondOperations,
          type \in Types :
          /\ op = kind
          /\ rootValue = In(1)
          /\ rootCtx = RootSerializerContext(1, In(1), type)
          /\ others = [j \in 1..3 |->
                          IF j = 2 THEN NewOperation(2, second.op, second.x, type)
                          ELSE NewOperation(j, kind, In(1), type)]
    /\ fnIn = NoCall
    /\ fnOut = NoCall

\* The running operation is set aside and operation j goes on.  A map two
\* operations both hold is one object: it is not set aside with its holder.
Switch ==
    /\ others # <<>>
    /\ cur \in 1..2
    /\ \E j \in (1..3) \ {cur} :
          /\ ~Ended(others[j])
          /\ j = 3 => (Ended(Operation) /\ Ended(others[3 - cur]))
          /\ cur' = j
          /\ others' = [others EXCEPT ![cur] = Operation]
          /\ op' = others[j].op
          /\ rootValue' = others[j].rootValue
          /\ rootCtx' = others[j].rootCtx
          /\ referenceMap' =
                IF others[j].rootCtx.referenceMap = rootCtx.referenceMap
                THEN referenceMap ELSE others[j].referenceMap
          /\ referenceCallbackMap' =
                IF others[j].rootCtx.referenceCallbackMap = rootCtx.referenceCallbackMap
                THEN referenceCallbackMap ELSE others[j].referenceCallbackMap
          /\ stack' = others[j].stack
          /\ heap' = others[j].heap
          /\ status' = others[j].status
          /\ result' = others[j].result
          /\ resolverCount' = others[j].resolverCount
          /\ initCount' = others[j].initCount
          /\ trace' = others[j].trace
          /\ replayed' = others[j].replayed
          /\ returned' = others[j].returned
          /\ resolverReads' = others[j].resolverReads
          /\ logged' = others[j].logged
    /\ UNCHANGED <<graph, typeGen, policy, discriminantMap, discriminator, typePreserve,
                   typeCtors, call, registry>>

NextTwo == Step \/ Switch

SpecTwo == InitTwo /\ [][NextTwo]_vars

\* -------------------------------------------------- sequences of visits
\* The reference handler under visits of any keys by initializers of any
\* results, with callbacks queued by whoever holds a resolver: once through
\* define, once through restore, the two given the same events.
MaxVisits == 2
MaxQueued == 3

\* What an initializer may return: nothing, null, an object it built.
InitializerResults == {Undefined, Null, Out(1)}

\* One handler at work: the maps of its context, the array the queued setters
\* write to and the array the callbacks note their calls in, the visits in
\* progress (innermost last), and what was seen: the
\* value each visit returned, the callbacks replayed, the initializers
\* invoked, the setters queued for a key whose initializer was running.
NewRun(map) ==
    [referenceMap |-> map,
     referenceCallbackMap |-> [k \in Nodes |-> <<>>],
     heap |-> <<NewObject("array"), NewObject("array")>>,
     stack |-> <<>>,
     returned |-> <<>>,
     replayed |-> <<>>,
     initialized |-> <<>>,
     deferred |-> <<>>,
     resolverCount |-> 0]

HandlerOrder_Of(h) == IF h = "define" THEN DefineOrder ELSE RestoreOrder
HandlerAfter(h, step) ==
    LET i == CHOOSE j \in 1..Len(HandlerOrder_Of(h)) : HandlerOrder_Of(h)[j] = step
    IN  HandlerOrder_Of(h)[i + 1]

\* define / restore called with the key: up to the call of the initializer.
RunVisit(h, run, k) ==
    LET d == IF h = "define" THEN define(run.referenceMap, In(k), run.resolverCount + 1)
             ELSE restore(run.referenceMap, In(k), run.resolverCount + 1)
    IN  IF d.branch = "fresh"
        THEN [run EXCEPT !.referenceMap = d.referenceMap,
                         !.stack = Append(@, [key |-> k, pc |-> "init", value |-> Undefined]),
                         !.initialized = Append(@, k)]
        ELSE [run EXCEPT !.referenceMap = d.referenceMap,
                         !.returned = Append(@, [key |-> k, branch |-> d.branch,
                                                 value |-> d.value]),
                         !.resolverCount = IF d.branch = "cycle" THEN @ + 1 ELSE @]

\* The innermost initializer returns v.
RunInitializerReturn(h, run, v) ==
    LET n == Len(run.stack) IN
    IF n = 0 THEN run
    ELSE [run EXCEPT !.stack[n].value = v, !.stack[n].pc = HandlerAfter(h, "init")]

\* The statement of the handler the innermost visit stands at.
RunStatement(h, run) ==
    LET n == Len(run.stack)
        f == run.stack[n]
    IN  IF n = 0 THEN run ELSE
        CASE f.pc = "init" -> run
          [] f.pc = "set" ->
                [run EXCEPT !.referenceMap[f.key] = f.value,
                            !.stack[n].pc = HandlerAfter(h, "set")]
          [] f.pc = "resolve" ->
                [run EXCEPT
                    !.heap = resolveReferenceCallbacks(run.referenceCallbackMap, f.key,
                                                       run.referenceMap, run.heap),
                    !.replayed = @ \o
                        [j \in 1..Len(run.referenceCallbackMap[f.key]) |->
                            [queue |-> f.key,
                             setter |-> run.referenceCallbackMap[f.key][j].setter,
                             read |-> run.referenceMap[run.referenceCallbackMap[f.key][j].key]]],
                    !.stack[n].pc = HandlerAfter(h, "resolve")]
          [] f.pc = "return" ->
                [run EXCEPT !.stack = SubSeq(@, 1, n - 1),
                            !.returned = Append(@, [key |-> f.key, branch |-> "fresh",
                                                    value |-> f.value])]

\* The context a setter is registered under: with the setter of a slot of the
\* array, or with none.
SetterContext(setter) ==
    SerializerContext(Undefined, 1, 1, Options(NumKey(0), "Array", None, None, setter), None)

\* registerReferenceCallback(referenceKey) on that context.
RunRegister(run, k, setter) ==
    [run EXCEPT !.referenceCallbackMap =
                    registerReferenceCallback(@, SetterContext(setter), k),
                !.deferred = IF setter # None /\ run.referenceMap[k] = In(k)
                             THEN Append(@, setter[1]) ELSE @]

\* The callbacks queued so far, over all keys.
RECURSIVE QueuedUpTo(_, _)
QueuedUpTo(callbackMap, k) ==
    IF k = 0 THEN 0 ELSE Len(callbackMap[k]) + QueuedUpTo(callbackMap, k - 1)
Queued(run) == QueuedUpTo(run.referenceCallbackMap, MaxNodes)

InitHandlers ==
    /\ NoOperation
    /\ NoPolymorphism
    /\ typeGen = [t \in Types |-> None]
    /\ rootCtx = GenericRootCtx
    /\ \E map \in [Nodes -> {Undefined, Out(1)}] :
          fnIn = Some([define |-> NewRun(map), restore |-> NewRun(map), visits |-> 0,
                       event |-> "start", key |-> 0, arg |-> None])
    /\ fnOut = NoCall

Both(event, k, arg, viaDefine, viaRestore) ==
    /\ fnIn' = Some([define |-> viaDefine, restore |-> viaRestore,
                     visits |-> fnIn[1].visits + (IF event = "visit" THEN 1 ELSE 0),
                     event |-> event, key |-> k, arg |-> arg])
    /\ fnOut' = Some(fnIn[1])
    /\ UNCHANGED <<registry, schedule, config, referenceMap, referenceCallbackMap, stack, heap,
                   status, result, resolverCount, history>>

\* The run through define stands in an initializer, or no visit is going on.
InInitializer ==
    LET st == fnIn[1].define.stack
    IN  IF st = <<>> THEN TRUE ELSE st[Len(st)].pc = "init"

\* A key is visited: by the caller, or by the initializer that is running.
HandlerVisit ==
    /\ InInitializer
    /\ fnIn[1].visits < MaxVisits
    /\ \E k \in Nodes :
          Both("visit", k, None, RunVisit("define", fnIn[1].define, k),
                           RunVisit("restore", fnIn[1].restore, k))

\* The holder of a resolver registers its setter, if it has one, for the key.
HandlerRegister ==
    /\ InInitializer
    /\ Queued(fnIn[1].define) < MaxQueued
    /\ \E k \in Nodes,
          setter \in {None, Some([kind |-> "arrayAt", obj |-> 1,
                                  index |-> Queued(fnIn[1].define)])} :
          /\ setter = None => fnIn[1].event # "register"
          /\ Both("register", k, setter, RunRegister(fnIn[1].define, k, setter),
                                         RunRegister(fnIn[1].restore, k, setter))

\* pushReferenceCallback(referenceKey, referenceCallback) with a callback of
\* the caller's own.
RunPush(run, k, callback) ==
    [run EXCEPT !.referenceCallbackMap = pushReferenceCallback(@, k, callback),
                !.deferred = IF run.referenceMap[k] = In(k)
                             THEN Append(@, callback.setter) ELSE @]

HandlerPush ==
    /\ InInitializer
    /\ Queued(fnIn[1].define) < MaxQueued
    /\ \E k \in Nodes :
          LET callback == [key |-> k, map |-> 1,
                           setter |-> [kind |-> "append", obj |-> 2,
                                       index |-> Queued(fnIn[1].define)]]
          IN  Both("push", k, Some(callback.setter), RunPush(fnIn[1].define, k, callback),
                                                     RunPush(fnIn[1].restore, k, callback))

\* The running initializer returns.
HandlerInitializerReturn ==
    /\ fnIn[1].define.stack # <<>>
    /\ InInitializer
    /\ \E v \in InitializerResults :
          Both("initialized", fnIn[1].define.stack[Len(fnIn[1].define.stack)].key, Some(v),
               RunInitializerReturn("define", fnIn[1].define, v),
               RunInitializerReturn("restore", fnIn[1].restore, v))

\* The handler goes on after the initializer: set, resolve, return.
HandlerStatement ==
    /\ ~InInitializer
    /\ Both(fnIn[1].define.stack[Len(fnIn[1].define.stack)].pc,
            fnIn[1].define.stack[Len(fnIn[1].define.stack)].key, None,
            RunStatement("define", fnIn[1].define),
            RunStatement("restore", fnIn[1].restore))

NextHandlers ==
    \/ HandlerVisit
    \/ HandlerRegister
    \/ HandlerPush
    \/ HandlerInitializerReturn
    \/ HandlerStatement

SpecHandlers == InitHandlers /\ [][NextHandlers]_vars

\* ------------------------------------------- the setters of a Set's elements
\* SetSerializer.serialize filling the array of a Set of up to MaxSetSize
\* elements, while the setters it has handed out are called from outside: by
\* a replay during an element's serialize call, or after the loop.
MaxSetSize == 3
MaxInvokes == 2
ElementResults == {Null, Out(1)}
DeferredValues == {Out(2), Out(3)}

SetContext ==
    SerializerContext(Undefined, 1, 1, Options(RootKey, "Set", None, Some(<<Bare("Set")>>), None),
                      None)

InitSetSetter ==
    /\ op = "serialize"
    /\ rootValue = Undefined
    /\ policy = [t \in Types |-> TypeMetadata(FALSE, FALSE)]
    /\ graph = [k \in Nodes |-> [kind |-> "Set", elems |-> <<>>]]
    /\ referenceMap = [k \in Nodes |-> Undefined]
    /\ referenceCallbackMap = [k \in Nodes |-> <<>>]
    /\ stack = <<>>
    /\ heap = <<NewObject("array")>>
    /\ status = "idle"
    /\ result = Undefined
    /\ resolverCount = 0
    /\ initCount = [k \in Nodes |-> 0]
    /\ trace = [k \in Nodes |-> <<>>]
    /\ replayed = <<>>
    /\ returned = {}
    /\ resolverReads = {}
    /\ logged = <<>>
    /\ OneOperation
    /\ NoPolymorphism
    /\ typeGen = [t \in Types |-> None]
    /\ rootCtx = SetContext
    /\ \E size \in 1..MaxSetSize :
          fnIn = Some([size |-> size, at |-> "loop", setters |-> <<>>, invokes |-> 0,
                       invoked |-> None])
    /\ fnOut = NoCall

SetSetterFrame ==
    UNCHANGED <<registry, schedule, config, referenceMap, referenceCallbackMap, stack,
                status, result, resolverCount, history>>

\* i++; the context of the element with its setter; its serialize is called.
SetterIterate ==
    /\ fnIn[1].at = "loop"
    /\ heap[1].i < fnIn[1].size - 1
    /\ LET genericSerializerContext == defineGenericSerializerContext(SetContext, 0).ctx
           valueSerializerContext ==
               SetValueSerializerContext(genericSerializerContext, 1, heap[1].i + 1)
       IN  /\ heap' = [heap EXCEPT ![1].i = @ + 1]
           /\ fnIn' = Some([fnIn[1] EXCEPT
                  !.at = "call",
                  !.setters = Append(@,
                      valueSerializerContext.serializerContextOptions.referenceValueSetter[1]),
                  !.invoked = None])
    /\ fnOut' = Some(heap)
    /\ SetSetterFrame

\* array[i] = what the element's serialize returned.
SetterStore ==
    /\ fnIn[1].at = "call"
    /\ \E r \in ElementResults :
          heap' = SetStore(heap, referenceCallbackMap, 1, SetContext, 1, r).heap
    /\ fnIn' = Some([fnIn[1] EXCEPT !.at = "loop", !.invoked = None])
    /\ fnOut' = Some(heap)
    /\ SetSetterFrame

\* return array;
SetterReturn ==
    /\ fnIn[1].at = "loop"
    /\ heap[1].i = fnIn[1].size - 1
    /\ fnIn' = Some([fnIn[1] EXCEPT !.at = "returned", !.invoked = None])
    /\ fnOut' = Some(heap)
    /\ heap' = heap
    /\ SetSetterFrame

\* A setter handed out at an earlier or the current position is called.
SetterInvoke ==
    /\ fnIn[1].at \in {"call", "returned"}
    /\ fnIn[1].invokes < MaxInvokes
    /\ \E j \in 1..Len(fnIn[1].setters), v \in DeferredValues :
          /\ heap' = ApplySetter(heap, fnIn[1].setters[j], v)
          /\ fnIn' = Some([fnIn[1] EXCEPT !.invokes = @ + 1,
                                          !.invoked = Some([position |-> j - 1, value |-> v])])
    /\ fnOut' = Some(heap)
    /\ SetSetterFrame

NextSetSetter == SetterIterate \/ SetterStore \/ SetterReturn \/ SetterInvoke

SpecSetSetter == InitSetSetter /\ [][NextSetSetter]_vars

\* ---------------------------------------------------------- inject sorter
\* The injects of a constructor: the index of the parameter and what the
\* parameter is injected with.
MaxInjects == 3
MaxInjectIndex == 3
InjectKeys == {"a", "b"}
InjectMetadata(injectIndex, key) == [injectIndex |-> injectIndex, key |-> key]
InjectMetadatas ==
    {InjectMetadata(i, key) : i \in 0..MaxInjectIndex, key \in InjectKeys}

\* (variant: the first index minus the second)
sort_Ascending(x, y) == x.injectIndex - y.injectIndex

\* DescInjectSorter.sort
sort(x, y) == y.injectIndex - x.injectIndex

\* array.sort(injectSorter.sort): the comparator decides, and injects it
\* calls equal keep their order.  x goes before the first inject that the
\* comparator places after it.
RECURSIVE PlaceInject(_, _, _)
PlaceInject(sorted, x, j) ==
    IF j > Len(sorted) THEN Append(sorted, x)
    ELSE IF sort(sorted[j], x) > 0
         THEN SubSeq(sorted, 1, j - 1) \o <<x>> \o SubSeq(sorted, j, Len(sorted))
         ELSE PlaceInject(sorted, x, j + 1)

RECURSIVE SortInjects(_, _)
SortInjects(injects, n) ==
    IF n = 0 THEN <<>> ELSE PlaceInject(SortInjects(injects, n - 1), injects[n], 1)

InitInjectSort ==
    /\ NoOperation
    /\ NoPolymorphism
    /\ typeGen = [t \in Types |-> None]
    /\ rootCtx = GenericRootCtx
    /\ \E n \in 0..MaxInjects : \E injects \in [1..n -> InjectMetadatas] :
          fnIn = Some([injects |-> injects, x |-> 0, y |-> 0])
    /\ fnOut = NoCall

InjectSortFrame ==
    UNCHANGED <<registry, schedule, config, referenceMap, referenceCallbackMap, stack, heap,
                status, result, resolverCount, history>>

\* injectSorter.sort(x, y) on two of the injects.
CompareInjects ==
    /\ fnOut = NoCall
    /\ \E x, y \in 1..Len(fnIn[1].injects) :
          /\ fnIn' = Some([fnIn[1] EXCEPT !.x = x, !.y = y])
          /\ fnOut' = Some([compared |-> sort(fnIn[1].injects[x], fnIn[1].injects[y]),
                            sorted |-> <<>>])
    /\ InjectSortFrame

\* The injects are sorted with the sorter.
SortAllInjects ==
    /\ fnOut = NoCall
    /\ fnIn' = fnIn
    /\ fnOut' = Some([compared |-> 0,
                      sorted |-> SortInjects(fnIn[1].injects, Len(fnIn[1].injects))])
    /\ InjectSortFrame

NextInjectSort == CompareInjects \/ SortAllInjects

SpecInjectSort == InitInjectSort /\ [][NextInjectSort]_vars

\* ------------------------------------------- polymorphic serialization
\* The member classes: declared with a name, anonymous, or anonymous with a
\* static property under each discriminator name.
CtorChoices(type) ==
    {NamedCtor(type),
     [NamedCtor(type) EXCEPT !.name = ""],
     [NamedCtor(type) EXCEPT !.name = "", !.props = [d \in {"tag", "kind"} |-> "X"]]}

\* An instance of a member class holds an instance in each of its properties;
\* a Set is a value of another shape.
PolymorphicInstances ==
    {r \in [kind : {"A", "B", "Set"}, elems : SeqsUpTo(Nodes, MaxElems)] :
        r.kind = "Set" => NoDup(r.elems)}

InitPolySerialize ==
    /\ op = "serialize"
    /\ rootValue = In(1)
    /\ graph \in [Nodes -> PolymorphicInstances]
    /\ policy = [t \in Types \cup ObjectTypes |-> TypeMetadata(FALSE, FALSE)]
    /\ typeGen = [t \in Types |-> None]
    /\ discriminantMap = <<[typeCtor |-> "A", discriminant |-> "X"],
                           [typeCtor |-> "B", discriminant |-> "Y"]>>
    /\ discriminator \in {[t \in PolyTypes |-> "kind"],
                          [t \in PolyTypes |-> IF t = "A" THEN "kind" ELSE "tag"]}
    /\ \E preserve \in BOOLEAN : typePreserve = [t \in PolyTypes |-> preserve]
    /\ \E a \in CtorChoices("A"), b \in CtorChoices("B") :
          typeCtors = [t \in PolyTypes |->
                          IF t = "A" THEN a ELSE IF t = "B" THEN b ELSE NamedCtor(t)]
    /\ rootCtx = SerializerContext(rootValue, 1, 1,
                                   Options(RootKey, "Root", None, None, None), None)
    /\ Fresh
    /\ OneOperation
    /\ fnIn = NoCall
    /\ fnOut = NoCall

NextPolySerialize == Step

SpecPolySerialize == InitPolySerialize /\ [][NextPolySerialize]_vars

\* ----------------------------------------------------------- round trip
\* A Set with two elements needs a node more than the graphs above have.
RoundTripNodes == 1..(MaxNodes + 1)

\* Sets only, each holding no instance twice.
SetInstances ==
    {r \in [kind : {"Set"}, elems : SeqsUpTo(RoundTripNodes, MaxElems)] : NoDup(r.elems)}

\* The maps and the bookkeeping of a top-level call that has not taken a step.
FreshCall(map, callbackMap, st, h, res, count, inits, tr, rep, ret, reads, log) ==
    /\ map = [k \in RoundTripNodes |-> Undefined]
    /\ callbackMap = [k \in RoundTripNodes |-> <<>>]
    /\ st = <<>>
    /\ h = <<>>
    /\ res = Undefined
    /\ count = 0
    /\ inits = [k \in RoundTripNodes |-> 0]
    /\ tr = [k \in RoundTripNodes |-> <<>>]
    /\ rep = <<>>
    /\ ret = {}
    /\ reads = {}
    /\ log = <<>>

InitRoundTrip ==
    /\ op = "serialize"
    /\ rootValue = In(1)
    /\ graph \in [RoundTripNodes -> SetInstances]
    /\ policy = [t \in Types |-> TypeMetadata(FALSE, FALSE)]
    /\ typeGen \in {[t \in Types |-> None], [t \in Types |-> Some(<<Bare("Set")>>)]}
    /\ \E type \in Types :
          rootCtx = SerializerContext(rootValue, 1, 1,
                                      Options(RootKey, type, None, None, None), None)
    /\ NoPolymorphism
    /\ FreshCall(referenceMap, referenceCallbackMap, stack, heap, result, resolverCount,
                 initCount, trace, replayed, returned, resolverReads, logged)
    /\ status = "idle"
    /\ OneOperation
    /\ fnIn = NoCall
    /\ fnOut = NoCall

\* Every entry of every array the serialization built is such an array.
ArraysOfArrays(h) ==
    \A o \in 1..Len(h) : \A j \in 1..Len(h[o].items) : h[o].items[j].t = "out"

\* The arrays a serialization built, as the input of a deserialization: array
\* o is instance o, its entries in index order.
AsInput(h) ==
    [k \in RoundTripNodes |->
        [kind |-> "Array",
         elems |-> IF k <= Len(h) THEN [j \in 1..Len(h[k].items) |-> h[k].items[j].id]
                   ELSE <<>>]]

\* deserialize(serialize(s)): what the serialization returned is handed to a
\* deserialization under a context of the same type; a new call, new maps.
Deserialize ==
    /\ fnIn = NoCall
    /\ op = "serialize" /\ status = "done"
    /\ result.t = "out" /\ ArraysOfArrays(heap)
    /\ fnIn' = Some([graph |-> graph, rootValue |-> rootValue, result |-> result,
                     heap |-> heap])
    /\ fnOut' = NoCall
    /\ op' = "deserialize"
    /\ graph' = AsInput(heap)
    /\ rootValue' = In(result.id)
    /\ rootCtx' = SerializerContext(In(result.id), 1, 1,
                                    rootCtx.serializerContextOptions, None)
    /\ FreshCall(referenceMap', referenceCallbackMap', stack', heap', result',
                 resolverCount', initCount', trace', replayed', returned',
                 resolverReads', logged')
    /\ status' = "idle"
    /\ UNCHANGED <<registry, schedule, typeGen, policy, discriminantMap, discriminator,
                   typePreserve, typeCtors>>

NextRoundTrip == Step \/ Deserialize

SpecRoundTrip == InitRoundTrip /\ [][NextRoundTrip]_vars

\* ------------------------------------------------------------------- claims
\* The traversal stands before an element of the collection being filled.
AtElement ==
    /\ status = "running" /\ Len(stack) > 0
    /\ Top.pc = "init" /\ Top.at = "loop" /\ Top.pos < Len(Elems(Top.key))
NextElem == In(Elems(Top.key)[Top.pos + 1])
\* ... which its serializer will hand to the reference handler,
ElementHandled == IsCollection(Top.gctx[1].serializerContextOptions.typeMetadata, NextElem)
\* ... whose initializer is still running,
InProgressVisit == AtElement /\ ElementHandled /\ referenceMap[NextElem.id] = NextElem
\* ... or which already maps to a finished value.
FinishedVisit ==
    /\ AtElement /\ ElementHandled
    /\ ~isNil(referenceMap[NextElem.id]) /\ referenceMap[NextElem.id] # NextElem

FullOrder == <<"placeholder", "init", "set", "resolve", "return">>
IsPrefix(s, t) == Len(s) <= Len(t) /\ \A j \in 1..Len(s) : s[j] = t[j]
FreshReturns(k) == {e \in returned : e.key = k /\ e.branch = "fresh"}

\* C1: a visit of a key with no entry records key -> key, invokes the
\* initializer, overwrites the entry with the initializer's result and only
\* then replays the callbacks queued for the key: every replayed callback
\* belongs to that key's queue and reads the finished value, never the
\* placeholder, and the visit returns the finished value.
C1_OrderOfFreshVisit ==
    /\ \A k \in Nodes : IsPrefix(trace[k], FullOrder)
    /\ \A j \in 1..Len(replayed) :
          /\ replayed[j].queue = replayed[j].key
          /\ replayed[j].read # In(replayed[j].key)
          /\ replayed[j].read.t = "out"
          /\ replayed[j].read = referenceMap[replayed[j].key]
          /\ \A e \in FreshReturns(replayed[j].key) : e.value = replayed[j].read
    /\ \A e \in returned : e.branch = "fresh" =>
          e.value.t = "out" /\ e.value = referenceMap[e.key]

C1_Witness ==
    /\ status = "done"
    /\ \E j \in 1..Len(replayed) : trace[replayed[j].key] = FullOrder
    /\ \E e \in returned : e.branch = "fresh" /\ e.key = rootValue.id /\ result = e.value

\* C2: a visit of a key whose initializer is still running returns a resolver,
\* does not invoke the initializer and leaves the reference map alone; the
\* callback map is left alone by the visit (only a collection that honours
\* the resolver queues its own setter, on that key); a resolver invoked after
\* the key's visit completed returns the key's finished value.
C2_ReentrantVisit ==
    /\ [](\A e \in resolverReads : e.finished =>
            /\ e.read.t = "out"
            /\ e.read = referenceMap[e.key]
            /\ \E r \in FreshReturns(e.key) : r.value = e.read)
    /\ [][(InProgressVisit /\ stack' # stack) =>
            /\ Len(stack') = Len(stack)
            /\ initCount' = initCount
            /\ referenceMap' = referenceMap
            /\ [key |-> NextElem.id, branch |-> "cycle",
                value |-> Resolver(NextElem.id, resolverCount + 1)] \in returned'
            /\ Top.ser = "Set" => referenceCallbackMap' = referenceCallbackMap
            /\ \A k \in Nodes \ {NextElem.id} :
                  referenceCallbackMap'[k] = referenceCallbackMap[k]]_vars

C2_Witness ==
    /\ status = "done"
    /\ \E e \in resolverReads : e.finished /\ e.read = referenceMap[e.key]

\* C3: a visit of a key that maps to a finished value returns that value and
\* does not invoke the initializer; every visit of one instance that yields a
\* value yields the same one, and every slot filled from such a visit holds it.
C3_SharedVisit ==
    /\ [](/\ \A e \in returned : e.branch = "value" =>
                /\ e.value.t = "out"
                /\ e.value = referenceMap[e.key]
                /\ \E r \in FreshReturns(e.key) : r.value = e.value
          /\ \A e1, e2 \in returned :
                (e1.key = e2.key /\ e1.branch \in {"fresh", "value"}
                                 /\ e2.branch \in {"fresh", "value"}) => e1.value = e2.value
          /\ \A k \in Nodes : initCount[k] <= 1
          /\ status = "done" =>
                \A k \in Nodes : referenceMap[k].t = "out" =>
                   LET items == heap[referenceMap[k].id].items IN
                   \A j \in 1..Len(items) : items[j].t = "out" =>
                      \E x \in Nodes : items[j] = referenceMap[x]
                                       /\ \E i \in 1..Len(Elems(k)) : Elems(k)[i] = x)
    /\ [][(FinishedVisit /\ stack' # stack) =>
            /\ Len(stack') = Len(stack)
            /\ initCount' = initCount
            /\ referenceMap' = referenceMap
            /\ [key |-> NextElem.id, branch |-> "value",
                value |-> referenceMap[NextElem.id]] \in returned']_vars

C3_Witness ==
    /\ status = "done" /\ result.t = "out"
    /\ \E e \in returned : e.branch = "value"
    /\ LET items == heap[result.id].items IN
       Len(items) = 2 /\ items[1] = items[2] /\ items[1].t = "out"

\* C4: every visit that receives a resolver gets a deferred setter queued for
\* the key, so when the operation returns no slot of the result holds a
\* resolver or a placeholder: each slot that referred to a cyclic instance
\* holds that instance's finished value.
C4_NoResolverInResult ==
    status = "done" =>
        /\ \A v \in HeldValues : ~isFunction(v) /\ v.t # "in"
        /\ \A e \in returned : e.branch = "cycle" =>
              \E j \in 1..Len(replayed) : replayed[j].key = e.key

\* C5: the traversal of a graph with cycles terminates: no initializer is
\* entered for an instance whose initializer is running, the recursion is no
\* deeper than the number of instances, and the operation ends.
C5_Terminates ==
    /\ [](/\ \A i, j \in 1..Len(stack) : i # j => stack[i].key # stack[j].key
          /\ Len(stack) <= MaxNodes
          /\ \A k \in Nodes : initCount[k] <= 1)
    /\ <>(status \in {"done", "error"})

C5_Witness ==
    /\ status = "done"
    /\ resolverCount > 0
    /\ \A k \in Nodes : Finished(k)

Matching(x) ==
    {i \in 1..Len(discriminantMap) :
        x.props[discriminator[discriminantMap[i].typeCtor]] = discriminantMap[i].discriminant}
First(S) == CHOOSE i \in S : \A j \in S : i <= j
\* The derived context differs from the one it was derived from in its Type
\* Metadata only.
SameButType(derived, ctx, type) ==
    /\ derived.parentSerializerContext = ctx.parentSerializerContext
    /\ derived.serializerContextOptions =
          [ctx.serializerContextOptions EXCEPT !.typeMetadata = type]

\* C6: given a raw record, definePolymorphicSerializerContext returns the
\* context of the first member, in map order, whose discriminant the record
\* holds under that member's discriminator field, and throws when no member
\* matches.
C6_ByDiscriminant ==
    (fnIn # NoCall /\ ~fnIn[1].x.isFunction) =>
        LET m == Matching(fnIn[1].x) IN
        IF m = {} THEN fnOut[1].threw
        ELSE /\ ~fnOut[1].threw
             /\ SameButType(fnOut[1].ctx, fnIn[1].ctx, discriminantMap[First(m)].typeCtor)

C6_Witness ==
    /\ fnIn # NoCall /\ ~fnIn[1].x.isFunction /\ ~fnOut[1].threw
    /\ Len(discriminantMap) = 2
    /\ discriminator[discriminantMap[1].typeCtor] # discriminator[discriminantMap[2].typeCtor]
    /\ fnOut[1].ctx.serializerContextOptions.typeMetadata = discriminantMap[2].typeCtor

IsMember(type) == \E i \in 1..Len(discriminantMap) : discriminantMap[i].typeCtor = type

\* C7: given any constructor function, definePolymorphicSerializerContext
\* looks the type up in the discriminant map: the context of that type when it
\* is a member, an error when it is not.
C7_ByTypeFn ==
    (fnIn # NoCall /\ fnIn[1].x.isFunction) =>
        IF IsMember(fnIn[1].x.type)
        THEN /\ ~fnOut[1].threw
             /\ SameButType(fnOut[1].ctx, fnIn[1].ctx, fnIn[1].x.type)
        ELSE fnOut[1].threw

\* C8: when two members carry the same discriminant under the same
\* discriminator field, resolving a record tagged with it throws.
C8_AmbiguousDiscriminantThrows ==
    (fnIn # NoCall /\ ~fnIn[1].x.isFunction) =>
        ((\E i, j \in Matching(fnIn[1].x) :
             /\ i # j
             /\ discriminantMap[i].discriminant = discriminantMap[j].discriminant
             /\ discriminator[discriminantMap[i].typeCtor]
                   = discriminator[discriminantMap[j].typeCtor])
         => fnOut[1].threw)

\* C9: defineGenericSerializerContext(index) throws when the context has no
\* effective generic arguments or none at that index; otherwise the context it
\* returns has the Type Metadata of the argument's type and, as its generic
\* argument override, the argument's nested generic arguments (none for a bare
\* type reference).
C9_GenericContext ==
    (fnIn # NoCall) =>
        LET ctx == fnIn[1].ctx
            index == fnIn[1].genericIndex
            args == genericArguments(ctx)
        IN  IF args = None \/ index < 0 \/ index >= Len(args[1])
            THEN fnOut[1].threw
            ELSE LET g == args[1][index + 1]
                     o == fnOut[1].ctx.serializerContextOptions
                 IN  /\ ~fnOut[1].threw
                     /\ o.typeMetadata = g.type
                     /\ o.genericArguments = IF g.isArray THEN Some(g.args) ELSE None
                     /\ o.propertyMetadata = None
                     /\ o.jsonPathKey = ctx.serializerContextOptions.jsonPathKey
                     /\ fnOut[1].ctx.parentSerializerContext = ctx.parentSerializerContext

C9_Witness ==
    /\ fnIn # NoCall /\ ~fnOut[1].threw
    /\ fnIn[1].genericIndex = 0
    /\ fnIn[1].ctx.serializerContextOptions.genericArguments = None
    /\ fnIn[1].ctx.serializerContextOptions.propertyMetadata # None
    /\ fnOut[1].ctx.serializerContextOptions.genericArguments = Some(<<Bare("Set")>>)

\* C10: the context of each element of a Set whose generic argument has
\* nested generic arguments carries those nested arguments.
C10_NestedGenericArguments ==
    \A f \in 1..Len(stack) :
        (stack[f].ser = "Set" /\ stack[f].gctx # None) =>
            LET g == genericArguments(stack[f].ctx)[1][1] IN
            g.isArray =>
                \A i \in 0..(Len(Elems(stack[f].key)) - 1) :
                    genericArguments(SetValueSerializerContext(stack[f].gctx[1],
                                                               stack[f].out, i))
                        = Some(g.args)

\* What the context read declares at the property and holds at the type.
Declared(name) == PropertyValue(fnIn[1].ctx, name)
OfType(name) == policy[fnIn[1].ctx.serializerContextOptions.typeMetadata][name]
Effective == fnOut[1].configuration
FallsBack(name) ==
    Effective[name] = IF Declared(name) # None THEN Declared(name)[1] ELSE OfType(name)

\* C11: the effective serializer, reference handler, naming convention, null
\* preservation, default-value use and implicit conversion of a context are
\* the property's value when the property declares one (a declared false
\* included) and the type's otherwise; so is the default value of either
\* direction when default values are in use; the effective generic arguments
\* are the override of the context options, else the property's, else the
\* type's.
C11_PropertyThenType ==
    (fnIn # NoCall) =>
        LET o == fnIn[1].ctx.serializerContextOptions IN
        /\ \A name \in {"referenceHandler", "preserveNull", "useDefaultValue",
                        "useImplicitConversion"} : FallsBack(name)
        /\ Effective.serializer =
              IF Declared("serializer") # None THEN Declared("serializer")[1]
              ELSE o.typeMetadata
        /\ Effective.namingConvention =
              IF Declared("namingConvention") # None THEN Declared("namingConvention")
              ELSE OfType("namingConvention")
        /\ Effective.useDefaultValue =>
              /\ FallsBack("serializedDefaultValue")
              /\ FallsBack("deserializedDefaultValue")
        /\ Effective.genericArguments =
              IF o.genericArguments # None THEN o.genericArguments
              ELSE IF Declared("genericArguments") # None THEN Declared("genericArguments")
              ELSE typeGen[o.typeMetadata]

C11_Witness ==
    /\ fnIn # NoCall
    /\ Declared("preserveNull") = Some(FALSE) /\ OfType("preserveNull")
    /\ ~Effective.preserveNull
    /\ Declared("useDefaultValue") = None /\ Effective.useDefaultValue
    /\ Effective.serializedDefaultValue = PropertySerializedDefault
    /\ fnIn[1].ctx.serializerContextOptions.genericArguments = None
    /\ Effective.genericArguments = Some(<<Bare("Array")>>)
    /\ typeGen[fnIn[1].ctx.serializerContextOptions.typeMetadata] # None

\* C12: the generic context and the element context derived under a field's
\* context carry no Property Metadata, and the element's effective serializer,
\* reference handler, null policy and default policy are those of the element
\* type's Type Metadata, whatever the field declares.
C12_ElementsIgnoreFieldOverrides ==
    (fnIn # NoCall /\ fnOut[1].elements # None) =>
        LET e == fnOut[1].elements[1]
            type == e.element.serializerContextOptions.typeMetadata
            c == e.configuration
        IN  /\ e.generic.serializerContextOptions.propertyMetadata = None
            /\ e.element.serializerContextOptions.propertyMetadata = None
            /\ type = Effective.genericArguments[1][1].type
            /\ c.serializer = type
            /\ c.referenceHandler = policy[type].referenceHandler
            /\ c.preserveNull = policy[type].preserveNull
            /\ c.useDefaultValue = policy[type].useDefaultValue
            /\ c.useDefaultValue =>
                  /\ c.serializedDefaultValue = policy[type].serializedDefaultValue
                  /\ c.deserializedDefaultValue = policy[type].deserializedDefaultValue

C12_Witness ==
    /\ fnIn # NoCall /\ fnOut[1].elements # None
    /\ Declared("preserveNull") = Some(TRUE) /\ Declared("useDefaultValue") = Some(FALSE)
    /\ Declared("serializer") = Some("Array") /\ Declared("referenceHandler") = Some("Lead")
    /\ LET c == fnOut[1].elements[1].configuration IN
       /\ ~c.preserveNull /\ c.useDefaultValue
       /\ c.serializer = "Set" /\ c.referenceHandler = "Direct"

\* C13: in both directions, the null value of a context is null when null
\* preservation is on, else the configured default (the property's, else the
\* type's) when default values are in use, else undefined; the default value
\* is the configured default when default values are in use, else undefined.
C13_NullAndDefaultPolicy ==
    (fnIn # NoCall) =>
        LET null == IF Declared("preserveNull") # None THEN Declared("preserveNull")[1]
                    ELSE OfType("preserveNull")
            default == IF Declared("useDefaultValue") # None
                       THEN Declared("useDefaultValue")[1] ELSE OfType("useDefaultValue")
            Configured(name) == IF Declared(name) # None THEN Declared(name)[1]
                                ELSE OfType(name)
        IN  /\ Effective.serializedDefaultValue =
                  IF default THEN Configured("serializedDefaultValue") ELSE Undefined
            /\ Effective.deserializedDefaultValue =
                  IF default THEN Configured("deserializedDefaultValue") ELSE Undefined
            /\ Effective.serializedNullValue =
                  IF null THEN Null
                  ELSE IF default THEN Configured("serializedDefaultValue") ELSE Undefined
            /\ Effective.deserializedNullValue =
                  IF null THEN Null
                  ELSE IF default THEN Configured("deserializedDefaultValue") ELSE Undefined

C13_Witness ==
    /\ fnIn # NoCall
    /\ Effective.preserveNull /\ Effective.useDefaultValue
    /\ Effective.serializedNullValue = Null
    /\ Effective.serializedDefaultValue = PropertySerializedDefault
    /\ Effective.deserializedDefaultValue = PropertyDeserializedDefault

\* What the root context declares or, failing that, its type holds.
RootPolicy(name) ==
    LET p == rootCtx.serializerContextOptions.propertyMetadata
        t == policy[rootCtx.serializerContextOptions.typeMetadata]
    IN  IF p # None /\ p[1][name] # None THEN p[1][name][1] ELSE t[name]
NothingHandled ==
    /\ referenceMap = [k \in Nodes |-> Undefined]
    /\ referenceCallbackMap = [k \in Nodes |-> <<>>]
    /\ \A k \in Nodes : initCount[k] = 0 /\ trace[k] = <<>>
    /\ resolverCount = 0 /\ heap = <<>>
    /\ \A e \in returned : e.branch \notin {"fresh", "cycle", "value"}

\* C14: the Set serializer answers an undefined input with the context's
\* default value and a null input with the context's null value, in either
\* direction; for both the reference handler is not called, the two maps stay
\* as they were and nothing is logged.
C14_AbsentThenNull ==
    (status = "done" /\ isNil(rootValue) /\ serializer(rootCtx) = "Set") =>
        LET configured == IF op = "serialize" THEN RootPolicy("serializedDefaultValue")
                          ELSE RootPolicy("deserializedDefaultValue")
            default == IF RootPolicy("useDefaultValue") THEN configured ELSE Undefined
        IN  /\ result = IF rootValue = Undefined THEN default
                        ELSE IF RootPolicy("preserveNull") THEN Null ELSE default
            /\ NothingHandled
            /\ logged = <<>>

C14_Witness ==
    /\ status = "done" /\ rootValue = Null /\ serializer(rootCtx) = "Set"
    /\ op = "serialize"
    /\ policy["Set"].preserveNull /\ ~policy["Set"].useDefaultValue
    /\ ~RootPolicy("preserveNull") /\ RootPolicy("useDefaultValue")
    /\ result = SerializedDefault

\* The next element is visited under a context of the Set type and is not a
\* Set (serializing) or not a sequence (deserializing).
MismatchVisit ==
    /\ AtElement
    /\ Top.gctx[1].serializerContextOptions.typeMetadata = "Set"
    /\ ~IsCollection("Set", NextElem)
ElementPath == Append(jsonPath(Top.gctx[1]), NumKey(Top.pos))
Entry(path) == [jsonPath |-> path, op |-> op]

\* C15: a value of another shape given to the Set serializer yields undefined
\* and does not end the operation: the two maps are left alone, an error is
\* logged exactly when error logging is enabled, and the collection that holds
\* the value goes on to its next element.
C15_ShapeMismatch ==
    /\ [](/\ \A e \in returned : e.branch = "mismatch" => e.value = Undefined
          /\ (status = "done" /\ rootValue.t = "in" /\ serializer(rootCtx) = "Set"
              /\ ~IsCollection("Set", rootValue)) =>
                /\ result = Undefined
                /\ NothingHandled
                /\ logged = IF policy["Set"].errorEnabled THEN <<Entry(<<RootKey>>)>>
                            ELSE <<>>
          /\ (status = "done" /\ op = "serialize") =>
                \A k \in Nodes : referenceMap[k].t = "out" =>
                    Len(heap[referenceMap[k].id].items) = Len(Elems(k)))
    /\ [][(MismatchVisit /\ stack' # stack) =>
            /\ status' = "running"
            /\ referenceMap' = referenceMap
            /\ referenceCallbackMap' = referenceCallbackMap
            /\ initCount' = initCount
            /\ stack' = WithTop([Top EXCEPT !.pos = @ + 1])
            /\ [key |-> NextElem.id, branch |-> "mismatch", value |-> Undefined] \in returned'
            /\ logged' = IF policy["Set"].errorEnabled
                         THEN Append(logged, Entry(ElementPath)) ELSE logged]_vars

C15_Witness ==
    /\ status = "done" /\ result.t = "out"
    /\ Len(logged) = 1 /\ Len(logged[1].jsonPath) = 2
    /\ LET items == heap[result.id].items IN
       Len(items) = 2 /\ items[1] = Undefined /\ items[2] # Undefined

SharesWithRoot(ctx) ==
    /\ ctx.root = rootCtx.root
    /\ ctx.referenceMap = rootCtx.referenceMap
    /\ ctx.referenceCallbackMap = rootCtx.referenceCallbackMap
RECURSIVE ChainShares(_)
ChainShares(ctx) ==
    /\ SharesWithRoot(ctx)
    /\ ctx.parentSerializerContext # None => ChainShares(ctx.parentSerializerContext[1])
RECURSIVE Ancestors(_)
Ancestors(ctx) ==
    IF ctx.parentSerializerContext = None THEN 0
    ELSE 1 + Ancestors(ctx.parentSerializerContext[1])

\* C16: whatever chain of defineChildSerializerContext,
\* defineGenericSerializerContext and definePolymorphicSerializerContext calls
\* leads from the root context of an operation to a context, the context and
\* all its ancestors hold the root payload, the reference map and the
\* callback map of the root context; a child's parent is the context it was
\* derived from, and a generic or polymorphic context keeps the parent of the
\* context it was derived from.
C16_SharedAcrossDerivations ==
    (fnOut # NoCall /\ ~fnOut[1].threw) =>
        LET ctx == fnOut[1].ctx
            from == fnIn[1].ctx
        IN  /\ ChainShares(ctx)
            /\ fnIn[1].call = "child" => ctx.parentSerializerContext = Some(from)
            /\ fnIn[1].call \in {"generic", "polymorphic"} =>
                  ctx.parentSerializerContext = from.parentSerializerContext

C16_Witness ==
    /\ fnOut # NoCall /\ ~fnOut[1].threw
    /\ fnIn[1].depth = MaxDerive /\ fnIn[1].call = "polymorphic"
    /\ Ancestors(fnOut[1].ctx) = 1
    /\ fnOut[1].ctx.serializerContextOptions.typeMetadata = "B"
    /\ fnOut[1].ctx.parentSerializerContext[1].serializerContextOptions.typeMetadata = "Set"
    /\ fnOut[1].ctx.referenceMap = 2 /\ fnOut[1].ctx.referenceCallbackMap = 1

\* Every operation of the state, the running one as it stands now.
Operations == [j \in DOMAIN others |-> IF j = cur THEN Operation ELSE others[j]]
\* What an operation leaves behind, apart from the identity of its maps.
Outcome(o) ==
    [status |-> o.status, result |-> o.result, heap |-> o.heap,
     referenceMap |-> o.referenceMap,
     referenceCallbackMap |->
        [k \in Nodes |-> [j \in 1..Len(o.referenceCallbackMap[k]) |->
            [key |-> o.referenceCallbackMap[k][j].key,
             setter |-> o.referenceCallbackMap[k][j].setter]]],
     initCount |-> o.initCount, trace |-> o.trace, returned |-> o.returned,
     logged |-> o.logged,
     replayed |-> [j \in 1..Len(o.replayed) |->
                      [key |-> o.replayed[j].key, read |-> o.replayed[j].read]]]

\* C17: each top-level operation has a reference map and a callback map of
\* its own; an operation finds an entry only for a key it has itself visited
\* and replays only callbacks that close over its own map; and an operation
\* interleaved in any way with another over the same instances ends as the
\* same operation does when it runs with nothing beside it.
C17_OperationsIsolated ==
    /\ \A i, j \in DOMAIN Operations : i # j =>
          /\ Operations[i].rootCtx.referenceMap # Operations[j].rootCtx.referenceMap
          /\ Operations[i].rootCtx.referenceCallbackMap
                # Operations[j].rootCtx.referenceCallbackMap
    /\ \A i \in DOMAIN Operations :
          LET o == Operations[i] IN
          /\ \A e \in o.returned : e.branch \in {"cycle", "value"} => o.initCount[e.key] > 0
          /\ \A k \in Nodes : ~isNil(o.referenceMap[k]) => o.initCount[k] > 0
          /\ \A j \in 1..Len(o.replayed) : o.replayed[j].map = o.rootCtx.referenceMap
    /\ (cur = 3 /\ Ended(Operation)) => Outcome(Operation) = Outcome(others[1])

C17_Witness ==
    /\ cur = 3 /\ status = "done" /\ result.t = "out"
    /\ resolverCount > 0
    /\ others[2].status = "done" /\ others[2].result.t = "out"
    /\ others[2].op # op
    /\ \E k \in Nodes : others[1].referenceMap[k] # others[2].referenceMap[k]

\* ------------------------------------------------------------- registry
\* The last call on the registry and the registry it was made on.
LastCall == fnIn[1]
RecordedBefore(typeCtor) ==
    IF LastCall.before.typeOptionsMap[typeCtor] = None THEN NoOptions
    ELSE LastCall.before.typeOptionsMap[typeCtor][1]

\* C18: configureTypeOptions(T, o) merges o into the options recorded for T,
\* created when T had none, and into the Type Metadata of T, the existing one
\* when there is one: an option o gives takes o's value, an option o does not
\* give keeps the value it had; the same registration made again leaves the
\* registry as it is.
C18_MergeNotReplace ==
    LastCall.call = "configureTypeOptions" =>
        LET b == LastCall.before
            T == LastCall.typeCtor
            o == LastCall.typeOptions
            had == IF b.prototype[T] = None THEN RecordedBefore(T)
                   ELSE b.prototype[T][1].typeOptions
        IN  /\ registry.typeOptionsMap[T] # None
            /\ registry.prototype[T] # None
            /\ \A name \in DOMAIN o :
                  /\ registry.typeOptionsMap[T][1][name] =
                        IF o[name] # None THEN o[name] ELSE RecordedBefore(T)[name]
                  /\ registry.prototype[T][1].typeOptions[name] =
                        IF o[name] # None THEN o[name] ELSE had[name]
            /\ b.prototype[T] # None => registry.prototype[T][1].id = b.prototype[T][1].id
            /\ configureTypeOptions(registry, T, o) = registry

\* A registration on a type with metadata and with a recorded alias, which
\* gives another option and no alias.
C18_Witness ==
    /\ LastCall.call = "configureTypeOptions"
    /\ LastCall.before.prototype[LastCall.typeCtor] # None
    /\ RecordedBefore(LastCall.typeCtor).alias = Some("a")
    /\ LastCall.typeOptions.alias = None
    /\ LastCall.typeOptions.useDefaultValue = Some(FALSE)
    /\ registry.typeOptionsMap[LastCall.typeCtor][1].alias = Some("a")
    /\ registry.typeOptionsMap[LastCall.typeCtor][1].useDefaultValue = Some(FALSE)

\* The type a type argument names on a registry.
Names(r, typeArgument) ==
    IF typeArgument.kind = "alias" THEN r.typeCtorMap[typeArgument.alias]
    ELSE typeArgument.yields

\* C19: the Type Metadata of a type is made once: no call replaces the instance
\* a type has, no two types have the same instance, and resolving a type by its
\* constructor, by an alias registered for it or by a lazy resolver yielding it
\* returns the instance the type has, made by this call only when the type had
\* none.
C19_Memoized ==
    LastCall.calls > 0 =>
        LET b == LastCall.before IN
        /\ \A t \in RegTypes :
              b.prototype[t] # None =>
                  /\ registry.prototype[t] # None
                  /\ registry.prototype[t][1].id = b.prototype[t][1].id
                  /\ registry.prototype[t][1].typeCtor = t
        /\ \A t, u \in RegTypes :
              registry.prototype[t] # None /\ registry.prototype[u] # None /\ t # u
                  => registry.prototype[t][1].id # registry.prototype[u][1].id
        /\ LastCall.call = "resolveTypeMetadata" /\ Names(b, LastCall.typeArgument) # None =>
              LET t == Names(b, LastCall.typeArgument)[1] IN
              /\ ~fnOut[1].threw
              /\ fnOut[1].typeMetadata = registry.prototype[t]
              /\ fnOut[1].typeMetadata[1].typeCtor = t
              /\ fnOut[1].typeMetadata[1].id =
                    IF b.prototype[t] # None THEN b.prototype[t][1].id ELSE b.created + 1

\* The third call resolves by alias a type whose metadata the first call made.
C19_Witness ==
    /\ LastCall.calls = 3
    /\ LastCall.call = "resolveTypeMetadata"
    /\ LastCall.typeArgument.kind = "alias"
    /\ fnOut[1].typeMetadata # None
    /\ fnOut[1].typeMetadata[1].id = 1
    /\ registry.created = 2

\* C20: resolveTypeMetadata throws when the alias given has no entry in the
\* alias map, which every alias a type declares has, or when the lazy resolver
\* given yields nothing; no Type Metadata is then made, and the alias map, the
\* options map and the metadata of every type are as before.
C20_UnknownThrows ==
    LET b == LastCall.before IN
    /\ \A t \in RegTypes, a \in Aliases :
          \/ /\ registry.typeOptionsMap[t] # None
             /\ registry.typeOptionsMap[t][1].alias = Some(a)
          \/ /\ registry.prototype[t] # None
             /\ registry.prototype[t][1].typeOptions.alias = Some(a)
          => registry.typeCtorMap[a] # None
    /\ LastCall.call = "resolveTypeMetadata" /\ Names(b, LastCall.typeArgument) = None =>
          /\ fnOut[1].threw
          /\ fnOut[1].typeMetadata = None
          /\ registry = b

\* An alias without an entry is resolved on a registry that has metadata and
\* another alias.
C20_Witness ==
    /\ LastCall.call = "resolveTypeMetadata"
    /\ LastCall.typeArgument = AliasArgument("b")
    /\ LastCall.before.typeCtorMap["a"] # None
    /\ LastCall.before.typeCtorMap["b"] = None
    /\ LastCall.before.created = 2
    /\ fnOut[1].threw
    /\ registry = LastCall.before

\* The names a set of options declares properties for.
DeclaredNames(typeOptions) ==
    IF typeOptions.propertyOptionsMap = None THEN {} ELSE typeOptions.propertyOptionsMap[1]

\* The types whose Type Metadata the last call made.
Compiled ==
    {t \in RegTypes : LastCall.before.prototype[t] = None /\ registry.prototype[t] # None}

\* What a type declares for itself when the last call compiles it: the
\* properties of the options recorded for it and of the options the call gave.
LocalNames(t) ==
    DeclaredNames(RecordedBefore(t))
        \cup (IF LastCall.typeCtor = t THEN DeclaredNames(LastCall.typeOptions) ELSE {})

\* C21: when the Type Metadata of a subtype is compiled, its own property map
\* holds every property the metadata of its supertype holds; a name the
\* subtype declares itself maps to the subtype's declaration, any other
\* inherited name to the supertype's Property Metadata.
C21_InheritedProperties ==
    \A t \in Compiled :
        LET typeMetadataParent == PrototypeLookup(LastCall.before, t)
            own == registry.prototype[t][1].propertyMetadataMap
        IN  typeMetadataParent # None =>
                \A name \in PropertyNames :
                    /\ typeMetadataParent[1].propertyMetadataMap[name] # None
                          => own[name] # None
                    /\ name \in LocalNames(t)
                          => own[name] = Some([name |-> name, declaringType |-> t])
                    /\ name \notin LocalNames(t)
                          => own[name] = typeMetadataParent[1].propertyMetadataMap[name]

\* Sub is compiled by a registration that declares p, which Base declares too,
\* while Base declares q as well.
C21_Witness ==
    /\ "Sub" \in Compiled
    /\ LastCall.before.prototype["Base"] # None
    /\ LastCall.before.prototype["Base"][1].propertyMetadataMap["p"]
          = Some([name |-> "p", declaringType |-> "Base"])
    /\ LastCall.before.prototype["Base"][1].propertyMetadataMap["q"]
          = Some([name |-> "q", declaringType |-> "Base"])
    /\ "p" \in DeclaredNames(LastCall.typeOptions)
    /\ registry.prototype["Sub"][1].propertyMetadataMap["p"]
          = Some([name |-> "p", declaringType |-> "Sub"])
    /\ registry.prototype["Sub"][1].propertyMetadataMap["q"]
          = Some([name |-> "q", declaringType |-> "Base"])

\* ------------------------------------------------------------ round trip
\* The Set the deserialization built as object o holds what instance k of the
\* serialized graph held: as many elements, the element at each position being
\* the Set rebuilt from the element of k at that position.
RECURSIVE Rebuilt(_, _, _, _)
Rebuilt(g, k, o, depth) ==
    /\ depth > 0
    /\ o \in 1..Len(heap)
    /\ heap[o].kind = "set"
    /\ Len(heap[o].items) = Len(g[k].elems)
    /\ \A j \in 1..Len(g[k].elems) :
          /\ heap[o].items[j].t = "out"
          /\ Rebuilt(g, g[k].elems[j], heap[o].items[j].id, depth - 1)

\* The serialization that was turned around, once the deserialization of what
\* it returned has ended.
TurnedAround == fnIn # NoCall /\ op = "deserialize" /\ status \in {"done", "error"}

\* C22: for a Set context with generic argument 0 declared and an acyclic Set s
\* of Sets, deserialize(serialize(s)) ends without an error and returns a Set
\* holding, position by position, the Sets rebuilt from the elements of s.
C22_SetRoundTrip ==
    TurnedAround =>
        /\ status = "done"
        /\ logged = <<>>
        /\ result.t = "out"
        /\ Rebuilt(fnIn[1].graph, fnIn[1].rootValue.id, result.id, MaxNodes + 2)

\* A Set of two Sets, the second of which holds the first, has gone round.
C22_Witness ==
    /\ TurnedAround
    /\ fnIn[1].graph[1].elems = <<3, 2>>
    /\ fnIn[1].graph[2].elems = <<3>>
    /\ fnIn[1].graph[3].elems = <<>>
    /\ result.t = "out"
    /\ Len(heap[result.id].items) = 2
    /\ Len(heap[heap[result.id].items[1].id].items) = 0
    /\ Len(heap[heap[result.id].items[2].id].items) = 1

\* ------------------------------------------- polymorphic serialization
\* The instances of the member classes the serialization reaches from the
\* root, within the given number of property reads.
RECURSIVE ReachedFrom(_, _)
ReachedFrom(k, depth) ==
    IF graph[k].kind \notin ObjectTypes \/ depth = 0 THEN {}
    ELSE {k} \cup UNION {ReachedFrom(graph[k].elems[j], depth - 1) :
                            j \in 1..Len(graph[k].elems)}
Reached == ReachedFrom(rootValue.id, MaxNodes)

\* The discriminator field of the runtime type of instance k.
RuntimeTag(k) ==
    Some([discriminator |-> discriminator[graph[k].kind],
          discriminant |-> DiscriminantOf(discriminantMap, graph[k].kind, 1)[1]])

\* The discriminator is preserved for every member type.
Preserved == \A t \in PolyTypes : typePreserve[t]

\* C23: with the discriminator preserved, a serialization of instances of the
\* member classes ends with a record for every instance it reached, the record
\* carrying the discriminator field of the instance's class with the
\* discriminant of that class, and every field that holds an instance holds
\* that instance's record, also where the instance was reached again while its
\* record was being built.
C23_DiscriminatorWritten ==
    (Preserved /\ Reached # {} /\ status \in {"done", "error"}) =>
        /\ status = "done"
        /\ result = referenceMap[rootValue.id]
        /\ \A k \in Reached :
              /\ referenceMap[k].t = "out"
              /\ heap[referenceMap[k].id].kind = "record"
              /\ heap[referenceMap[k].id].tag = RuntimeTag(k)
              /\ \A j \in 1..Len(graph[k].elems) :
                    graph[k].elems[j] \in Reached =>
                        /\ Len(heap[referenceMap[k].id].items) >= j
                        /\ heap[referenceMap[k].id].items[j]
                              = referenceMap[graph[k].elems[j]]

\* -------------------------------------------------- sequences of visits
ViaDefine == fnIn[1].define
ViaRestore == fnIn[1].restore

\* C24: define and restore, given the same visits, initializer results and
\* registrations from the same maps, have after every step returned the same
\* values, hold the same reference map and callback map, stand in the same
\* visits, and have replayed the same callbacks with the same effect.
C24_SameAlgorithm ==
    /\ ViaDefine.returned = ViaRestore.returned
    /\ ViaDefine.referenceMap = ViaRestore.referenceMap
    /\ ViaDefine.referenceCallbackMap = ViaRestore.referenceCallbackMap
    /\ ViaDefine.stack = ViaRestore.stack
    /\ ViaDefine.replayed = ViaRestore.replayed
    /\ ViaDefine.heap = ViaRestore.heap
    /\ ViaDefine.initialized = ViaRestore.initialized

\* Both have answered a re-entrant visit with a resolver, replayed a callback
\* and returned from the visit.
C24_Witness ==
    /\ \E j \in 1..Len(ViaRestore.returned) : ViaRestore.returned[j].branch = "cycle"
    /\ \E j \in 1..Len(ViaDefine.returned) : ViaDefine.returned[j].branch = "cycle"
    /\ \E j \in 1..Len(ViaRestore.returned) : ViaRestore.returned[j].branch = "fresh"
    /\ Len(ViaRestore.replayed) > 0
    /\ ViaDefine.stack = <<>>

\* ------------------------------------------------------ the callback queues
BeforeStep == fnOut[1].define
AfterStep == fnIn[1].define

IsNote(callback) == callback.setter.kind = "append"
NotesOf(queue) ==
    LET notes == SelectSeq(queue, IsNote)
    IN  [j \in 1..Len(notes) |-> NotedCall(notes[j].setter.index)]

SlotOf(items, i) == IF i < Len(items) THEN items[i + 1] ELSE Undefined
WritesSlot(queue, i) ==
    \E j \in 1..Len(queue) : queue[j].setter.kind = "arrayAt" /\ queue[j].setter.index = i

\* C25: a callback pushed for a key, directly or by registerReferenceCallback
\* with a setter, becomes the last of that key's queue and leaves every other
\* queue as it was; registerReferenceCallback without a setter leaves all
\* queues as they were; resolveReferenceCallbacks of a key calls the callbacks
\* of that key's queue in the order they were pushed and no other callback,
\* and changes nothing when the queue is empty.
C25_OrderedQueue ==
    fnOut # NoCall =>
        LET k == fnIn[1].key
            queue == BeforeStep.referenceCallbackMap[k]
        IN  /\ (fnIn[1].event \in {"push", "register"} /\ fnIn[1].arg # None) =>
                  \A other \in Nodes :
                      AfterStep.referenceCallbackMap[other] =
                          IF other = k
                          THEN BeforeStep.referenceCallbackMap[k]
                                  \o <<[key |-> k, setter |-> fnIn[1].arg[1], map |-> 1]>>
                          ELSE BeforeStep.referenceCallbackMap[other]
            /\ (fnIn[1].event = "register" /\ fnIn[1].arg = None) =>
                  AfterStep.referenceCallbackMap = BeforeStep.referenceCallbackMap
            /\ fnIn[1].event = "resolve" =>
                  /\ AfterStep.heap[2].items = BeforeStep.heap[2].items \o NotesOf(queue)
                  /\ \A i \in 0..(MaxQueued - 1) :
                        SlotOf(AfterStep.heap[1].items, i) =
                            IF WritesSlot(queue, i) THEN BeforeStep.referenceMap[k]
                            ELSE SlotOf(BeforeStep.heap[1].items, i)
                  /\ queue = <<>> => AfterStep.heap = BeforeStep.heap

\* A key's queue of two noting callbacks and a setter has just been replayed
\* while another key's queue held a callback.
C25_Witness ==
    /\ fnOut # NoCall
    /\ fnIn[1].event = "resolve"
    /\ Len(SelectSeq(BeforeStep.referenceCallbackMap[fnIn[1].key], IsNote)) = 2
    /\ \E other \in Nodes \ {fnIn[1].key} : BeforeStep.referenceCallbackMap[other] # <<>>
    /\ Len(AfterStep.heap[2].items) = 2

\* ------------------------------------------------ configuration errors
\* The keys whose initializer had been called and had not returned.
Interrupted == {k \in Nodes : trace[k] # <<>> /\ trace[k][Len(trace[k])] # "return"}

\* C26: when a configuration error has ended the operation, no initializer
\* is left running and the operation has no result; every key whose
\* initializer was running still maps to itself, was followed by no set, no
\* replay and no return, and no callback of its queue has been called.
C26_ErrorPropagates ==
    status = "error" =>
        /\ stack = <<>>
        /\ result = Undefined
        /\ Interrupted # {}
        /\ \A k \in Interrupted :
              /\ trace[k] = <<"placeholder", "init">>
              /\ referenceMap[k] = In(k)
              /\ \A j \in 1..Len(replayed) : replayed[j].queue # k
              /\ \A r \in returned : r.key = k => r.branch # "fresh"

\* The error left two nested initializers, one of which had a callback
\* waiting.
C26_Witness ==
    /\ status = "error"
    /\ Cardinality(Interrupted) >= 2
    /\ \E k \in Interrupted : referenceCallbackMap[k] # <<>>

\* ------------------------------------------------------- order of injects
Compared == fnOut # NoCall /\ fnIn[1].x > 0
SortedAll == fnOut # NoCall /\ fnIn[1].x = 0

\* The injects of b are those of a in another order.
SameInjects(a, b) ==
    /\ Len(a) = Len(b)
    /\ \A m \in InjectMetadatas :
          Cardinality({j \in 1..Len(a) : a[j] = m}) = Cardinality({j \in 1..Len(b) : b[j] = m})

RECURSIVE ParentChain(_)
ParentChain(ctx) ==
    IF ctx.parentSerializerContext = None THEN <<ctx>>
    ELSE Append(ParentChain(ctx.parentSerializerContext[1]), ctx)

Segment(key) ==
    IF key.isNumber THEN "[" \o ToString(key.k) \o "]"
    ELSE "['" \o KeyText(key) \o "']"

RECURSIVE Segments(_, _)
Segments(chain, n) ==
    IF n <= 1 THEN ""
    ELSE Segments(chain, n - 1) \o Segment(chain[n].serializerContextOptions.jsonPathKey)

Derivation == fnIn[1].call
DerivedFrom == fnIn[1].ctx
DerivedContext == fnOut[1].ctx

\* C28: the jsonPath of a context is the key of the root context followed by
\* a segment for each parent link down to the context, [n] for a numeric key
\* and ['k'] for a string key; a generic or a polymorphic context has the
\* key, the parent and so the path of the context it was derived from; and
\* the context of element i of a Set has the path of the Set's context
\* followed by [i].
C28_JsonPath ==
    ~fnOut[1].threw =>
        /\ jsonPathText(DerivedContext) =
              KeyText(ParentChain(DerivedContext)[1].serializerContextOptions.jsonPathKey)
                  \o Segments(ParentChain(DerivedContext), Len(ParentChain(DerivedContext)))
        /\ Derivation \in {"generic", "polymorphic"} =>
              /\ DerivedContext.serializerContextOptions.jsonPathKey
                    = DerivedFrom.serializerContextOptions.jsonPathKey
              /\ DerivedContext.parentSerializerContext = DerivedFrom.parentSerializerContext
              /\ jsonPathText(DerivedContext) = jsonPathText(DerivedFrom)
        /\ Derivation = "child" =>
              Len(ParentChain(DerivedContext)) = Len(ParentChain(DerivedFrom)) + 1
        /\ \A i \in 0..(MaxElems - 1) :
              LET generic == defineGenericSerializerContext(DerivedContext, 0) IN
              ~generic.threw =>
                  jsonPathText(SetValueSerializerContext(generic.ctx, 1, i))
                      = jsonPathText(DerivedContext) \o "[" \o ToString(i) \o "]"

\* A generic context has been derived from the context of element 0 of a
\* property of the root, and the elements of a Set can be derived from it.
C28_Witness ==
    /\ Derivation = "generic"
    /\ ~fnOut[1].threw
    /\ jsonPathText(DerivedContext) = "$['p1'][0]"
    /\ ~defineGenericSerializerContext(DerivedContext, 0).threw

\* ------------------------------------------- deferred values of a Set
\* C29: a setter handed out at position i of the loop of
\* SetSerializer.serialize, called at any time with a value, puts the value
\* in slot i of the array and leaves every other slot as it was.
C29_SetterWritesOwnSlot ==
    (fnOut # NoCall /\ fnIn[1].invoked # None) =>
        LET position == fnIn[1].invoked[1].position
            before == fnOut[1][1].items
            after == heap[1].items
        IN  /\ SlotOf(after, position) = fnIn[1].invoked[1].value
            /\ \A i \in 0..(MaxSetSize - 1) :
                  i # position => SlotOf(after, i) = SlotOf(before, i)

\* ------------------------------------------------- one initializer per key
TimesInitialized(run, k) ==
    Cardinality({j \in 1..Len(run.initialized) : run.initialized[j] = k})

\* C30: whatever the visits of a key and whatever its initializer returns,
\* null and undefined included, the initializer of the key has been called at
\* most once, by define as by restore.
C30_InitializedOnce ==
    \A k \in Nodes :
        /\ TimesInitialized(ViaDefine, k) <= 1
        /\ TimesInitialized(ViaRestore, k) <= 1

\* ---------------------------------------------- each callback called once
TimesReplayed(run, setter) ==
    Cardinality({j \in 1..Len(run.replayed) : run.replayed[j].setter = setter})

\* C31: no queued callback has been called twice, and once the outermost
\* visit has returned, every callback that was queued for a key while the
\* initializer of the key was running has been called.
C31_ReplayedOnce ==
    /\ \A j \in 1..Len(ViaDefine.replayed) :
          TimesReplayed(ViaDefine, ViaDefine.replayed[j].setter) = 1
    /\ ViaDefine.stack = <<>> =>
          \A j \in 1..Len(ViaDefine.deferred) :
              TimesReplayed(ViaDefine, ViaDefine.deferred[j]) = 1

\* ------------------------------------------------- what the Set serializer does
\* What the visits of a key have returned so far.
ResultsOf(k) == {r.value : r \in {q \in returned : q.key = k}}

\* The Sets that adding one result per element, in order, can give.
RECURSIVE AddedInOrder(_, _)
AddedInOrder(elems, n) ==
    IF n = 0 THEN {<<>>}
    ELSE {SetAdd(items, r) : items \in AddedInOrder(elems, n - 1), r \in ResultsOf(elems[n])}

GenericArgumentZero(ctx) == genericArguments(ctx)[1][1].type

\* C32: while the Set serializer works on a collection, the reference key of
\* the visit is the collection itself (a Set when serializing, an array when
\* deserializing); the element being visited is the next in order, under a
\* child of the generic context keyed by its index and typed by generic
\* argument 0; and what has been built holds, when serializing, one entry per
\* element done, entry i being a result of element i, and when deserializing
\* the results of the entries done, added in index order.  When the
\* initializer returns, every element is done.
C32_SetSerializer ==
    \A d \in 1..Len(stack) :
        LET f == stack[d] IN
        f.ser = "Set" =>
            /\ graph[f.key].kind = (IF op = "serialize" THEN "Set" ELSE "Array")
            /\ f.pc = "init" => referenceMap[f.key] = In(f.key)
            /\ f.pc # "init" => f.at = "returned" /\ f.value = Some(Out(f.out))
            /\ f.at # "generic" =>
                  /\ f.gctx[1].serializerContextOptions.typeMetadata = GenericArgumentZero(f.ctx)
                  /\ f.gctx[1].serializerContextOptions.jsonPathKey
                        = f.ctx.serializerContextOptions.jsonPathKey
                  /\ IF op = "serialize"
                     THEN /\ heap[f.out].kind = "array"
                          /\ Len(heap[f.out].items) = f.pos
                          /\ \A j \in 1..f.pos :
                                heap[f.out].items[j] \in ResultsOf(Elems(f.key)[j])
                     ELSE /\ heap[f.out].kind = "set"
                          /\ heap[f.out].items \in AddedInOrder(Elems(f.key), f.pos)
                  /\ f.at = "returned" => f.pos = Len(Elems(f.key))
                  /\ d < Len(stack) =>
                        LET e == stack[d + 1] IN
                        /\ f.at = "loop"
                        /\ e.key = Elems(f.key)[f.pos + 1]
                        /\ e.ctx.serializerContextOptions.jsonPathKey = NumKey(f.pos)
                        /\ e.ctx.serializerContextOptions.typeMetadata
                              = GenericArgumentZero(f.ctx)
                        /\ e.ctx.parentSerializerContext = f.gctx

\* A Set inside a Set has been serialized to an array of two entries, its
\* second element under the key 1.
C32_Witness ==
    /\ op = "serialize"
    /\ Len(stack) = 2
    /\ stack[1].ser = "Set" /\ stack[2].ser = "Set"
    /\ stack[2].at = "returned"
    /\ Len(heap[stack[2].out].items) = 2

\* ------------------------------------------------ placeholders and progress
\* The keys whose initializer has been called and whose entry has not yet
\* been overwritten with what it returned.
InProgress(run) ==
    {run.stack[j].key : j \in {i \in 1..Len(run.stack) : run.stack[i].pc \in {"init", "set"}}}
Placeholders(run) == {k \in Nodes : run.referenceMap[k] = In(k)}
FinishedKeys(run) ==
    {run.returned[j].key : j \in {i \in 1..Len(run.returned) : run.returned[i].branch = "fresh"}}

\* C33: the keys that map to themselves are exactly the keys whose
\* initializer is running, so none is left when the outermost visit has
\* returned; and a key whose visit has returned its finished value does not
\* map to itself again.
C33_PlaceholderWhileRunning ==
    /\ Placeholders(ViaDefine) = InProgress(ViaDefine)
    /\ Placeholders(ViaRestore) = InProgress(ViaRestore)
    /\ ViaDefine.stack = <<>> => Placeholders(ViaDefine) = {}
    /\ FinishedKeys(ViaDefine) \cap Placeholders(ViaDefine) = {}
    /\ FinishedKeys(ViaRestore) \cap Placeholders(ViaRestore) = {}

\* ------------------------------------------- inheritance and call order
PropertiesOf(t) ==
    {name \in PropertyNames : registry.prototype[t][1].propertyMetadataMap[name] # None}

\* C34: after any calls in any order, a subtype that has Type Metadata holds
\* every property the Type Metadata of its supertype holds.
C34_OrderIndependent ==
    \A t \in RegTypes :
        (Parent(t) # None /\ registry.prototype[t] # None) =>
            (registry.prototype[Parent(t)[1]] # None =>
                PropertiesOf(Parent(t)[1]) \subseteq PropertiesOf(t))

\* ------------------------------------------------------------ the alias map
\* C35: no call removes an entry of the alias map; a registration or
\* definition of a type that gives an alias makes the alias name that type,
\* whatever it named before; no other call changes what an alias names; and
\* resolving an alias that has an entry returns the Type Metadata of the type
\* it names.
C35_AliasMapGrows ==
    LastCall.calls > 0 =>
        LET b == LastCall.before
            registers == LastCall.call \in {"configureTypeOptions", "defineTypeMetadata"}
        IN  /\ \A a \in Aliases : b.typeCtorMap[a] # None => registry.typeCtorMap[a] # None
            /\ \A a \in Aliases :
                  IF registers /\ LastCall.typeOptions.alias = Some(a)
                  THEN registry.typeCtorMap[a] = Some(LastCall.typeCtor)
                  ELSE registry.typeCtorMap[a] = b.typeCtorMap[a]
            /\ (LastCall.call = "resolveTypeMetadata" /\ LastCall.typeArgument.kind = "alias"
                    /\ b.typeCtorMap[LastCall.typeArgument.alias] # None) =>
                  /\ ~fnOut[1].threw
                  /\ fnOut[1].typeMetadata[1].typeCtor
                        = b.typeCtorMap[LastCall.typeArgument.alias][1]

\* A type that has the alias b is registered with the alias a, which named
\* another type: a names the type now and b still does.
C35_Witness ==
    /\ LastCall.call = "configureTypeOptions"
    /\ LastCall.typeOptions.alias = Some("a")
    /\ LastCall.before.typeCtorMap["a"] # None
    /\ LastCall.before.typeCtorMap["a"] # Some(LastCall.typeCtor)
    /\ LastCall.before.typeCtorMap["b"] = Some(LastCall.typeCtor)
    /\ registry.typeCtorMap["a"] = Some(LastCall.typeCtor)
    /\ registry.typeCtorMap["b"] = Some(LastCall.typeCtor)

\* ------------------------------------------------- one instance per type
\* The type a call defines or resolves, if any.
Addressed ==
    IF LastCall.call = "defineTypeMetadata" THEN Some(LastCall.typeCtor)
    ELSE IF LastCall.call = "resolveTypeMetadata"
         THEN Names(LastCall.before, LastCall.typeArgument)
         ELSE None

\* C36: the Type Metadata a type has is of that type and is the instance of
\* no other type; defining or resolving a type returns the instance of that
\* type, which is not the instance its supertype has, whether the supertype
\* had one before the call or not.
C36_OwnInstance ==
    /\ \A t \in RegTypes :
          registry.prototype[t] # None =>
              /\ registry.prototype[t][1].typeCtor = t
              /\ \A u \in RegTypes \ {t} :
                    registry.prototype[u] # None =>
                        registry.prototype[u][1].id # registry.prototype[t][1].id
    /\ (LastCall.calls > 0 /\ Addressed # None) =>
          LET t == Addressed[1] IN
          /\ fnOut[1].typeMetadata # None
          /\ fnOut[1].typeMetadata[1].typeCtor = t
          /\ fnOut[1].typeMetadata = registry.prototype[t]
          /\ (Parent(t) # None /\ registry.prototype[Parent(t)[1]] # None) =>
                fnOut[1].typeMetadata[1].id # registry.prototype[Parent(t)[1]][1].id

\* Sub, which had no Type Metadata while Base had, is resolved by its
\* constructor and gets an instance of its own.
C36_Witness ==
    /\ LastCall.call = "resolveTypeMetadata"
    /\ LastCall.typeArgument = CtorArgument("Sub")
    /\ LastCall.before.prototype["Sub"] = None
    /\ LastCall.before.prototype["Base"] # None
    /\ fnOut[1].typeMetadata[1].typeCtor = "Sub"
    /\ fnOut[1].typeMetadata[1].id = LastCall.before.created + 1

====
